---- MODULE Spec2Model ----
(***************************************************************************)
(* Validation pipeline of openapi-validator-tui: the pipeline scheduler    *)
(* (src/pipeline/orchestrator.rs), the container runner it drives          *)
(* (src/docker/run.rs) and the shared cancel flag (src/docker/types.rs).   *)
(*                                                                         *)
(* Threads of the program are processes of the model: the scheduler        *)
(* thread (run_inner), one worker thread per step of a chunk, and for each *)
(* container the supervisor (orchestrate) and its two reader threads.      *)
(* The environment decides when a child process exits, what it prints,     *)
(* when its timeout elapses and when the user cancels.                     *)
(*                                                                         *)
(* Log texts are not modelled; a line is identified by the reader that     *)
(* read it and by its position in the container's output.                  *)
(***************************************************************************)
EXTENDS Integers, Sequences, FiniteSets, TLC

\* ------------------------------------------------------------------ bounds
MaxServerGens == 2      \* longest server_generators list explored
MaxClientGens == 1      \* longest client_generators list explored
MaxJobs == 2            \* largest Jobs::Fixed(n) explored
MaxLines == 1           \* lines one container prints before it ends
MaxItems == 2           \* items of a stream handed to run_container on its own
MaxWrites == 2          \* lines a child writes when its runner is taken step by step
MaxCpus == 1            \* largest CPU count available_parallelism reports

\* ------------------------------------------------------- program constants
AutoJobsCap == 4        \* Jobs::Auto is capped at 4 workers

GeneratorNames == {"spring", "go"}
ClientNames == {"ts"}
Modes == {"server", "client", "both"}
\* Linter::Redocly takes the path of Linter::Spectral with another command
\* line (redocly_command for spectral_command); one of the two is explored.
Linters == {"spectral", "none"}

Min(a, b) == IF a <= b THEN a ELSE b

SeqsUpTo(S, n) == UNION {[1..k -> S] : k \in 0..n}

\* ------------------------------------------------------------------ config
\* Jobs: <<"Fixed", n>> with n >= 1 (deserialization rejects 0), or Auto.
JobsValues == {<<"Fixed", n>> : n \in 1..MaxJobs} \cup {<<"Auto", 0>>}

\* Generator names are labels only; the first server generator is fixed to
\* one name, the second ranges over all names (so a duplicate is included).
ServerLists ==
    {s \in SeqsUpTo(GeneratorNames, MaxServerGens) : s = <<>> \/ s[1] = "spring"}
ClientLists == SeqsUpTo(ClientNames, MaxClientGens)

Configs ==
    [mode : Modes, lint : BOOLEAN, generate : BOOLEAN, compile : BOOLEAN,
     linter : Linters, server_generators : ServerLists,
     client_generators : ClientLists, jobs : JobsValues]

\* available_parallelism(): 0 stands for Err, otherwise the CPU count.
ParallelismOutcomes == 0..MaxCpus

\* Jobs::resolve
JobsResolve(j, par) ==
    IF j[1] = "Fixed" THEN j[2]
    ELSE IF par = 0 THEN 1 ELSE Min(par, AutoJobsCap)

\* add_for_scope inside build_generator_list
add_for_scope(generators, scope) ==
    [i \in 1..Len(generators) |-> <<generators[i], scope>>]

build_generator_list(c) ==
    CASE c.mode = "server" -> add_for_scope(c.server_generators, "server")
      [] c.mode = "client" -> add_for_scope(c.client_generators, "client")
      [] c.mode = "both" -> add_for_scope(c.server_generators, "server")
                            \o add_for_scope(c.client_generators, "client")

MaxSteps == MaxServerGens + MaxClientGens
LintSlot == 0
Slots == 0..MaxSteps


\* output_dir of generator_command: the pieces of the formatted path.
output_dir(pair) == <<"/work/.generated/", pair[1], "-", pair[2]>>

\* Phase (pipeline/types.rs): which step an event belongs to.
LintPhase == [kind |-> "Lint", generator |-> "", scope |-> ""]
StepPhase(k, pair) == [kind |-> k, generator |-> pair[1], scope |-> pair[2]]

\* ------------------------------------------------------------------- state
VARIABLES
    cfg,        \* PipelineInput.config, owned by the run
    cancel,     \* CancelToken: the shared AtomicBool
    pc,         \* position of the scheduler thread in run_inner
    kind,       \* StepKind of the run_steps_parallel call in progress
    jobs,       \* its `jobs`
    base,       \* steps of the list consumed by earlier chunks
    results,    \* its `results`
    summary,    \* total / passed / failed of run_inner
    phases,     \* Phases of run_inner
    worker,     \* per step: position of the thread that runs it, its `success`
    child,      \* per step: the docker child process and its runner threads
    budget,     \* per step: lines the child can still print
    chan,       \* per step: the runner's OutputLine channel
    stream,     \* what the receiver of the PipelineEvent channel has been sent
    observed,   \* history: the first poll of the scheduler that found the flag set
    snap,       \* history: where the run stood when cancel() was called
    sup,        \* the supervisor thread (orchestrate) of a runner taken step by step
    readers,    \* its two reader threads and the pipes they read
    twin,       \* two runs of run_steps_parallel on one input, side by side
    disk,       \* the bytes of the spec file on disk
    edit,       \* the last call of apply_fix: its proposal, the file before, the result
    app,        \* App.spec_index and the rebuilds made so far
    ask,        \* the last query put to the index or to the fix rules, and its answer
    tui         \* App.cancel_token, pipeline_rx, validating, and the runs started so far

schedVars == <<pc, kind, jobs, base, results, summary, phases>>
runVars == <<worker, child, budget, chan>>
specVars == <<twin, disk, edit, app, ask, tui>>
vars == <<cfg, cancel, schedVars, runVars, stream, observed, snap, sup, readers, specVars>>

generators == build_generator_list(cfg)

\* Mutant of Chunk: a chunk takes one step more than `jobs`.
ChunkTooLong == (base + 1)..Min(base + jobs + 1, Len(build_generator_list(cfg)))

\* The slots of the chunk in progress: generators.chunks(jobs), one at a time.
Chunk == (base + 1)..Min(base + jobs, Len(generators))

StepId(k, i) == <<k, i>>
LintId == StepId("Lint", LintSlot)
PhaseOf(k, i) == IF k = "Lint" THEN LintPhase ELSE StepPhase(k, generators[i])

\* ----------------------------------------------------- the event channel
NoEvent == [type |-> "None"]
PhaseStarted(k, i) == [type |-> "PhaseStarted", step |-> StepId(k, i), phase |-> PhaseOf(k, i)]
Log(k, i, line) == [type |-> "Log", step |-> StepId(k, i), phase |-> PhaseOf(k, i), line |-> line]
PhaseFinished(k, i, success) ==
    [type |-> "PhaseFinished", step |-> StepId(k, i), phase |-> PhaseOf(k, i), success |-> success]
Completed(report) == [type |-> "Completed", report |-> report]
Aborted(reason) == [type |-> "Aborted", reason |-> reason]

IsTerminal(e) == e.type \in {"Completed", "Aborted"}

EmptyStream ==
    [started |-> {}, finished |-> {}, terminals |-> <<>>, last |-> NoEvent]

\* tx.send(e): the receiver's record of the stream so far.
Send(s, e) ==
    [started |-> IF e.type = "PhaseStarted" THEN s.started \cup {e.step} ELSE s.started,
     finished |-> IF e.type = "PhaseFinished"
                  THEN s.finished \cup {<<e.step, e.success>>} ELSE s.finished,
     terminals |-> IF IsTerminal(e) THEN Append(s.terminals, e) ELSE s.terminals,
     last |-> e]

\* ----------------------------------------------------------- initial state
NotObserved == [seen |-> FALSE, started |-> {}]
NoSnap == [at |-> "never", past |-> {}]
IdleWorker == [pc |-> "idle", success |-> FALSE]
\* The two pipes of a child, and so the two reader threads and the two kinds
\* of line item.
Streams == {"Stdout", "Stderr"}
LF == "\n"
\* No supervisor and no reader thread exists.
NoOutcome == [status |-> "sleep", cancelled |-> FALSE, timed_out |-> FALSE]
IdleSup == [pc |-> "idle", outcome |-> NoOutcome, late |-> FALSE, log_buf |-> <<>>]
IdleReaders == [s \in Streams |-> [state |-> "idle", unread |-> 0, sent |-> 0]]
\* Option<T>: None is the empty sequence, Some(x) is <<x>>.
Some(x) == <<x>>
NoPhases == [lint |-> <<>>, generate |-> <<>>, compile |-> <<>>]

\* No spec file is looked at and no second run stands beside the first.
NoTwin == <<>>
NoEdit == [state |-> "none", before |-> <<>>, target_line |-> 0, inserted |-> <<>>]
NoApp == [spec_index |-> <<>>, fix_proposal |-> <<>>, builds |-> <<>>]
NoAsk == [op |-> "none", arg |-> <<>>, answer |-> <<>>]
NoTui == [cancel_token |-> <<>>, pipeline_rx |-> <<>>, validating |-> FALSE, runs |-> <<>>]
SpecIdle ==
    /\ twin = NoTwin
    /\ disk = <<>>
    /\ edit = NoEdit
    /\ app = NoApp
    /\ ask = NoAsk
    /\ tui = NoTui

Init ==
    /\ cfg \in Configs
    /\ cancel = FALSE
    /\ pc = "new"
    /\ kind = "none"
    /\ jobs = 1
    /\ base = 0
    /\ results = <<>>
    /\ summary = [total |-> 0, passed |-> 0, failed |-> 0]
    /\ phases = NoPhases
    /\ worker = [i \in Slots |-> IdleWorker]
    /\ child = [i \in Slots |-> "none"]
    /\ budget = [i \in Slots |-> 0]
    /\ chan = [i \in Slots |-> <<>>]
    /\ stream = EmptyStream
    /\ observed = NotObserved
    /\ snap = NoSnap
    /\ sup = IdleSup
    /\ readers = IdleReaders
    /\ SpecIdle

\* ------------------------------------------------------------ cancel flag
\* Steps that no cancel poll of the scheduler stands before any more: the
\* lint step (nothing is polled before it), the steps of chunks already
\* spawned, and the steps of the chunk whose poll has just passed.
PastPolls ==
    {LintId}
    \cup {StepId("Generate", i) : i \in
            IF kind = "Compile" THEN 1..Len(generators)
            ELSE IF kind = "Generate"
                 THEN 1..(IF pc \in {"chunk_spawn", "chunk_join"}
                          THEN Min(base + jobs, Len(generators))
                          ELSE Min(base, Len(generators)))
                 ELSE {}}
    \cup {StepId("Compile", i) : i \in
            IF kind = "Compile"
            THEN 1..(IF pc \in {"chunk_spawn", "chunk_join"}
                     THEN Min(base + jobs, Len(generators))
                     ELSE Min(base, Len(generators)))
            ELSE {}}

\* Steps whose PhaseStarted has been sent or whose thread has been spawned.
Launched ==
    stream.started
    \cup {StepId(kind, i) : i \in {j \in Slots : j # LintSlot /\ worker[j].pc # "idle"}}

\* CancelToken::is_cancelled
is_cancelled == cancel

\* Mutant of Cancel: the call flips the flag, so a second call resets it.
CancelToggle ==
    /\ cancel' = ~cancel
    /\ snap' = IF cancel THEN snap
               ELSE [at |-> IF pc = "new" THEN "new" ELSE "run", past |-> PastPolls]
    /\ UNCHANGED <<cfg, schedVars, runVars, stream, observed, sup, readers, specVars>>

\* CancelToken::cancel, called by the user of the run at any moment. The
\* store is idempotent; only the first call changes the flag.
Cancel ==
    /\ ~cancel
    /\ cancel' = TRUE
    /\ snap' = [at |-> IF pc = "new" THEN "new" ELSE "run", past |-> PastPolls]
    /\ UNCHANGED <<cfg, schedVars, runVars, stream, observed, sup, readers, specVars>>

\* ------------------------------------------------------- container runner
\* docker::spawn succeeded: the child runs, and the supervisor thread
\* (orchestrate) and its two reader threads run with it.
SpawnOk(i) ==
    /\ child' = [child EXCEPT ![i] = "running"]
    /\ budget' = [budget EXCEPT ![i] = MaxLines]

\* The reader thread of pipe s reads one line and sends it on the channel as
\* Stdout(line) or Stderr(line); the receiver treats the two alike, and the
\* item keeps the line only.
ReadLine(i, s) ==
    /\ child[i] = "running"
    /\ budget[i] > 0
    /\ budget' = [budget EXCEPT ![i] = @ - 1]
    /\ chan' = [chan EXCEPT ![i] = Append(@, [item |-> "Line", line |-> MaxLines - budget[i] + 1])]
    /\ UNCHANGED <<cfg, cancel, schedVars, worker, child, stream, observed, snap, sup, readers, specVars>>

\* Mutant of PollOutcome: the timeout is never checked.
PollOutcomeNoTimeout(c, flag, elapsed) ==
    IF c # "running" THEN [status |-> c, cancelled |-> FALSE, timed_out |-> FALSE]
    ELSE IF flag THEN [status |-> "none", cancelled |-> TRUE, timed_out |-> FALSE]
    ELSE [status |-> "sleep", cancelled |-> FALSE, timed_out |-> FALSE]

\* A variant of PollOutcome: the timeout is looked at before the flag.
PollOutcomeTimeoutFirst(c, flag, elapsed) ==
    IF c # "running" THEN [status |-> c, cancelled |-> FALSE, timed_out |-> FALSE]
    ELSE IF elapsed THEN [status |-> "none", cancelled |-> FALSE, timed_out |-> TRUE]
    ELSE IF flag THEN [status |-> "none", cancelled |-> TRUE, timed_out |-> FALSE]
    ELSE [status |-> "sleep", cancelled |-> FALSE, timed_out |-> FALSE]

\* One iteration of the supervisor's poll loop, on a child in state c
\* ("running", or how it exited), with the cancel flag as read and with
\* `elapsed` telling whether start.elapsed() > timeout: try_wait first, then
\* the flag, then the timeout, else sleep.
PollOutcome(c, flag, elapsed) ==
    IF c # "running" THEN [status |-> c, cancelled |-> FALSE, timed_out |-> FALSE]
    ELSE IF flag THEN [status |-> "none", cancelled |-> TRUE, timed_out |-> FALSE]
    ELSE IF elapsed THEN [status |-> "none", cancelled |-> FALSE, timed_out |-> TRUE]
    ELSE [status |-> "sleep", cancelled |-> FALSE, timed_out |-> FALSE]

\* Mutant of ContainerResult: any exit status the child left counts as success.
ContainerResultAnyExit(o) ==
    [success |-> o.status \in {"exit0", "exit1", "signal"},
     exit_code |-> CASE o.status = "exit0" -> Some(0)
                     [] o.status = "exit1" -> Some(1)
                     [] OTHER -> <<>>,
     cancelled |-> o.cancelled,
     timed_out |-> o.timed_out]

\* ContainerResult of the finalize block (the log text left out).
ContainerResult(o) ==
    [success |-> o.status = "exit0",
     exit_code |-> CASE o.status = "exit0" -> Some(0)
                     [] o.status = "exit1" -> Some(1)
                     [] OTHER -> <<>>,
     cancelled |-> o.cancelled,
     timed_out |-> o.timed_out]

\* How a child ends by itself: exit code 0, another code, or a signal.
ChildEnds == {"exit0", "exit1", "signal"}

\* orchestrate from the poll that leaves the loop to the end: the child is
\* dead (it exited, or it was killed and waited for), both readers are
\* joined, so every line is on the channel, and Done is sent after them.
Supervise(i, c, elapsed) ==
    /\ child[i] = "running"
    /\ LET o == PollOutcome(c, is_cancelled, elapsed) IN
        /\ o.status # "sleep"
        /\ chan' = [chan EXCEPT ![i] = Append(@, [item |-> "Done", result |-> ContainerResult(o)])]
    /\ child' = [child EXCEPT ![i] = "none"]
    /\ budget' = [budget EXCEPT ![i] = 0]
    /\ UNCHANGED <<cfg, cancel, schedVars, worker, stream, observed, snap, sup, readers, specVars>>

\* ------------------------------------------------------------ run_container
KindOf(i) == IF i = LintSlot THEN "Lint" ELSE kind

\* Mutant of StepSuccess: the cancelled field of the outcome is not looked at.
StepSuccessIgnoresCancel(result) == result.success

\* The step's success as run_container takes it from the Done item.
StepSuccess(result) == IF result.cancelled THEN FALSE ELSE result.success

\* Mutant of ContainerSpawn: after a failed spawn run_container goes on to
\* read a stream that nobody feeds.
ContainerSpawnStuck(i) ==
    /\ worker[i].pc = "started"
    /\ \/ /\ SpawnOk(i)
          /\ worker' = [worker EXCEPT ![i].pc = "drain"]
       \/ /\ worker' = [worker EXCEPT ![i].pc = "drain"]
          /\ child' = [child EXCEPT ![i] = "failed"]
          /\ UNCHANGED budget
    /\ UNCHANGED <<cfg, cancel, schedVars, chan, stream, observed, snap, sup, readers, specVars>>

\* docker::spawn inside run_container. On Err there is no child and no
\* channel (child "failed"), and run_container returns at once.
ContainerSpawn(i) ==
    /\ worker[i].pc = "started"
    /\ \/ /\ SpawnOk(i)
          /\ worker' = [worker EXCEPT ![i].pc = "drain"]
       \/ /\ worker' = [worker EXCEPT ![i] = [pc |-> "finish", success |-> FALSE]]
          /\ child' = [child EXCEPT ![i] = "failed"]
          /\ UNCHANGED budget
    /\ UNCHANGED <<cfg, cancel, schedVars, chan, stream, observed, snap, sup, readers, specVars>>

\* One iteration of `for line in container_rx`.
WorkerRecv(i) ==
    /\ worker[i].pc = "drain"
    /\ chan[i] # <<>>
    /\ LET m == Head(chan[i]) IN
        /\ chan' = [chan EXCEPT ![i] = Tail(@)]
        /\ IF m.item = "Done"
           THEN /\ worker' = [worker EXCEPT ![i] =
                        [pc |-> "finish", success |-> StepSuccess(m.result)]]
                /\ UNCHANGED stream
           ELSE /\ stream' = Send(stream, Log(KindOf(i), i, m.line))
                /\ UNCHANGED worker
    /\ UNCHANGED <<cfg, cancel, schedVars, child, budget, observed, snap, sup, readers, specVars>>

\* --------------------------------------------------- worker thread of a step
StatusOf(success) == IF success THEN "pass" ELSE "fail"

\* Mutant of WorkerStart: the thread goes on without sending PhaseStarted.
WorkerStartSilent(i) ==
    /\ i # LintSlot
    /\ worker[i].pc = "spawned"
    /\ worker' = [worker EXCEPT ![i].pc = "started"]
    /\ UNCHANGED <<cfg, cancel, schedVars, child, budget, chan, stream,
                   observed, snap, sup, readers, specVars>>

WorkerStart(i) ==
    /\ i # LintSlot
    /\ worker[i].pc = "spawned"
    /\ stream' = Send(stream, PhaseStarted(kind, i))
    /\ worker' = [worker EXCEPT ![i].pc = "started"]
    /\ UNCHANGED <<cfg, cancel, schedVars, child, budget, chan,
                   observed, snap, sup, readers, specVars>>

\* A variant of WorkerFinish: a step of a cancelled run ends without its
\* PhaseFinished.
WorkerFinishQuiet(i) ==
    /\ i # LintSlot
    /\ worker[i].pc = "finish"
    /\ stream' = IF is_cancelled THEN stream
                 ELSE Send(stream, PhaseFinished(kind, i, worker[i].success))
    /\ worker' = [worker EXCEPT ![i].pc = "ret"]
    /\ UNCHANGED <<cfg, cancel, schedVars, child, budget, chan,
                   observed, snap, sup, readers, specVars>>

WorkerFinish(i) ==
    /\ i # LintSlot
    /\ worker[i].pc = "finish"
    /\ stream' = Send(stream, PhaseFinished(kind, i, worker[i].success))
    /\ worker' = [worker EXCEPT ![i].pc = "ret"]
    /\ UNCHANGED <<cfg, cancel, schedVars, child, budget, chan,
                   observed, snap, sup, readers, specVars>>

\* What a thread leaves behind once it has returned and been joined.
ResetSlot(i) ==
    /\ worker' = [worker EXCEPT ![i] = IdleWorker]
    /\ child' = [child EXCEPT ![i] = "none"]
    /\ budget' = [budget EXCEPT ![i] = 0]
    /\ chan' = [chan EXCEPT ![i] = <<>>]

\* ------------------------------------------------------------------ run_inner
Count(rs, st) == Cardinality({i \in DOMAIN rs : rs[i].status = st})

\* Mutant of Tally: the phase is counted once, not once per result.
TallyPerPhase(sm, rs) ==
    [total |-> sm.total + 1,
     passed |-> sm.passed + Count(rs, "pass"),
     failed |-> sm.failed + Count(rs, "fail")]

\* The counters after the loop over a phase's results.
Tally(sm, rs) ==
    [total |-> sm.total + Len(rs),
     passed |-> sm.passed + Count(rs, "pass"),
     failed |-> sm.failed + Count(rs, "fail")]

\* Mutant of all_passed: one passing generator is enough.
any_passed(rs) == \E i \in DOMAIN rs : rs[i].status = "pass"

all_passed(rs) == \A i \in DOMAIN rs : rs[i].status = "pass"

\* History of a poll that found the flag set: the steps started until then.
SeenAt(o, started) == IF o.seen THEN o ELSE [seen |-> TRUE, started |-> started]

AbortRun ==
    /\ stream' = Send(stream, Aborted("Cancelled by user"))
    /\ observed' = SeenAt(observed, stream.started)
    /\ pc' = "done"

\* run_pipeline: the scheduler thread is spawned.
RunPipeline ==
    /\ pc = "new"
    /\ pc' = "start"
    /\ UNCHANGED <<cfg, cancel, kind, jobs, base, results, summary, phases,
                   runVars, stream, observed, snap, sup, readers, specVars>>

\* Mutant of LintEnabled: the lint flag of the configuration is ignored.
LintEnabledAnyway == cfg.linter # "none"

LintEnabled == cfg.lint /\ cfg.linter # "none"

LintStart ==
    /\ pc = "start"
    /\ LintEnabled
    /\ stream' = Send(stream, PhaseStarted("Lint", LintSlot))
    /\ worker' = [worker EXCEPT ![LintSlot].pc = "started"]
    /\ pc' = "lint_run"
    /\ UNCHANGED <<cfg, cancel, kind, jobs, base, results, summary, phases,
                   child, budget, chan, observed, snap, sup, readers, specVars>>

LintSkip ==
    /\ pc = "start"
    /\ ~LintEnabled
    /\ pc' = "gen_enter"
    /\ UNCHANGED <<cfg, cancel, kind, jobs, base, results, summary, phases,
                   runVars, stream, observed, snap, sup, readers, specVars>>

\* run_container has returned: the counters, the lint record, PhaseFinished.
LintFinish ==
    /\ pc = "lint_run"
    /\ worker[LintSlot].pc = "finish"
    /\ LET lint_success == worker[LintSlot].success
           rec == [linter |-> cfg.linter, status |-> StatusOf(lint_success)] IN
        /\ summary' = Tally(summary, <<rec>>)
        /\ phases' = [phases EXCEPT !.lint = Some(rec)]
        /\ stream' = Send(stream, PhaseFinished("Lint", LintSlot, lint_success))
    /\ ResetSlot(LintSlot)
    /\ pc' = "lint_poll"
    /\ UNCHANGED <<cfg, cancel, kind, jobs, base, results, observed, snap, sup, readers, specVars>>

\* Mutant of LintPoll: Aborted is sent but run_inner does not return.
LintPollNoReturn ==
    /\ pc = "lint_poll"
    /\ IF is_cancelled
       THEN /\ stream' = Send(stream, Aborted("Cancelled by user"))
            /\ observed' = SeenAt(observed, stream.started)
       ELSE UNCHANGED <<stream, observed>>
    /\ pc' = "gen_enter"
    /\ UNCHANGED <<cfg, cancel, kind, jobs, base, results, summary, phases,
                   runVars, snap, sup, readers, specVars>>

\* Mutant of LintPoll: a failed lint aborts the run.
LintPollAbortOnFail ==
    /\ pc = "lint_poll"
    /\ IF is_cancelled \/ phases.lint[1].status = "fail"
       THEN AbortRun
       ELSE pc' = "gen_enter" /\ UNCHANGED <<stream, observed>>
    /\ UNCHANGED <<cfg, cancel, kind, jobs, base, results, summary, phases,
                   runVars, snap, sup, readers, specVars>>

LintPoll ==
    /\ pc = "lint_poll"
    /\ IF is_cancelled
       THEN AbortRun
       ELSE pc' = "gen_enter" /\ UNCHANGED <<stream, observed>>
    /\ UNCHANGED <<cfg, cancel, kind, jobs, base, results, summary, phases,
                   runVars, snap, sup, readers, specVars>>

\* Entry of run_steps_parallel for the steps of kind k.
EnterSteps(k) ==
    /\ kind' = k
    /\ \E par \in ParallelismOutcomes : jobs' = JobsResolve(cfg.jobs, par)
    /\ base' = 0
    /\ results' = <<>>
    /\ pc' = "chunk_poll"

\* Mutant of GenerateEnter: an empty generator list still enters the phase.
GenerateEnterNoEmptyCheck ==
    /\ pc = "gen_enter"
    /\ IF cfg.generate
       THEN EnterSteps("Generate")
       ELSE pc' = "report" /\ UNCHANGED <<kind, jobs, base, results>>
    /\ UNCHANGED <<cfg, cancel, summary, phases, runVars, stream, observed, snap, sup, readers, specVars>>

\* Mutant of GenerateEnter: a failed lint keeps the Generate phase from running.
GenerateEnterGated ==
    /\ pc = "gen_enter"
    /\ IF /\ cfg.generate /\ generators # <<>>
          /\ (phases.lint = <<>> \/ phases.lint[1].status = "pass")
       THEN EnterSteps("Generate")
       ELSE pc' = "report" /\ UNCHANGED <<kind, jobs, base, results>>
    /\ UNCHANGED <<cfg, cancel, summary, phases, runVars, stream, observed, snap, sup, readers, specVars>>

\* A variant of GenerateEnter: with generate disabled, compile alone enters
\* the Compile phase.
GenerateEnterCompileAlone ==
    /\ pc = "gen_enter"
    /\ IF cfg.generate /\ generators # <<>>
       THEN EnterSteps("Generate")
       ELSE IF cfg.compile /\ generators # <<>>
            THEN EnterSteps("Compile")
            ELSE pc' = "report" /\ UNCHANGED <<kind, jobs, base, results>>
    /\ UNCHANGED <<cfg, cancel, summary, phases, runVars, stream, observed, snap, sup, readers, specVars>>

GenerateEnter ==
    /\ pc = "gen_enter"
    /\ IF cfg.generate /\ generators # <<>>
       THEN EnterSteps("Generate")
       ELSE pc' = "report" /\ UNCHANGED <<kind, jobs, base, results>>
    /\ UNCHANGED <<cfg, cancel, summary, phases, runVars, stream, observed, snap, sup, readers, specVars>>

\* ------------------------------------------------------- run_steps_parallel
\* Mutant of ChunkPoll: the flag is not polled between chunks.
ChunkPollNoCheck ==
    /\ pc = "chunk_poll"
    /\ pc' = IF base >= Len(generators) THEN "phase_poll" ELSE "chunk_spawn"
    /\ UNCHANGED <<cfg, cancel, kind, jobs, base, results, summary, phases,
                   runVars, stream, observed, snap, sup, readers, specVars>>

\* Mutant of ChunkPoll: a failed step of an earlier chunk also breaks the loop.
ChunkPollStopOnFail ==
    /\ pc = "chunk_poll"
    /\ IF base >= Len(generators)
       THEN pc' = "phase_poll" /\ UNCHANGED observed
       ELSE IF is_cancelled
            THEN pc' = "phase_poll" /\ observed' = SeenAt(observed, stream.started)
            ELSE /\ pc' = IF \E n \in DOMAIN results : results[n].status = "fail"
                          THEN "phase_poll" ELSE "chunk_spawn"
                 /\ UNCHANGED observed
    /\ UNCHANGED <<cfg, cancel, kind, jobs, base, results, summary, phases,
                   runVars, stream, snap, sup, readers, specVars>>

\* Top of `for chunk in generators.chunks(jobs)`: the list is used up, or
\* the flag is polled and either breaks the loop or lets the chunk start.
ChunkPoll ==
    /\ pc = "chunk_poll"
    /\ IF base >= Len(generators)
       THEN pc' = "phase_poll" /\ UNCHANGED observed
       ELSE IF is_cancelled
            THEN pc' = "phase_poll" /\ observed' = SeenAt(observed, stream.started)
            ELSE pc' = "chunk_spawn" /\ UNCHANGED observed
    /\ UNCHANGED <<cfg, cancel, kind, jobs, base, results, summary, phases,
                   runVars, stream, snap, sup, readers, specVars>>

\* std::thread::spawn for the next step of the chunk, in list order.
SpawnWorker ==
    /\ pc = "chunk_spawn"
    /\ LET idle == {i \in Chunk : worker[i].pc = "idle"}
           i == CHOOSE j \in idle : \A h \in idle : j <= h IN
        /\ idle # {}
        /\ worker' = [worker EXCEPT ![i].pc = "spawned"]
        /\ pc' = IF idle = {i} THEN "chunk_join" ELSE "chunk_spawn"
    /\ UNCHANGED <<cfg, cancel, kind, jobs, base, results, summary, phases,
                   child, budget, chan, stream, observed, snap, sup, readers, specVars>>

\* Mutant of StepResult: the status is taken to be "pass".
StepResultPass(i) ==
    [generator |-> generators[i][1], scope |-> generators[i][2], status |-> "pass"]

\* StepResult returned by the thread of step i.
StepResult(i) ==
    [generator |-> generators[i][1], scope |-> generators[i][2],
     status |-> StatusOf(worker[i].success)]

\* A variant of JoinWorker: the chunk loop goes on without joining.
JoinWorkerDetached ==
    /\ pc = "chunk_join"
    /\ base' = base + jobs
    /\ pc' = "chunk_poll"
    /\ UNCHANGED <<cfg, cancel, kind, jobs, results, summary, phases, runVars,
                   stream, observed, snap, sup, readers, specVars>>

\* handle.join() for the next handle, in list order; after the last one the
\* loop goes on to the next chunk.
JoinWorker ==
    /\ pc = "chunk_join"
    /\ LET open == {i \in Chunk : worker[i].pc # "idle"}
           i == CHOOSE j \in open : \A h \in open : j <= h IN
        /\ open # {}
        /\ worker[i].pc = "ret"
        /\ results' = Append(results, StepResult(i))
        /\ ResetSlot(i)
        /\ IF open = {i}
           THEN base' = base + jobs /\ pc' = "chunk_poll"
           ELSE UNCHANGED <<base, pc>>
    /\ UNCHANGED <<cfg, cancel, kind, jobs, summary, phases, stream, observed, snap, sup, readers, specVars>>

\* Mutant of GeneratePoll: the flag is not polled after the Generate call.
GeneratePollNoCheck ==
    /\ pc = "phase_poll"
    /\ kind = "Generate"
    /\ summary' = Tally(summary, results)
    /\ phases' = [phases EXCEPT !.generate = Some(results)]
    /\ IF cfg.compile /\ all_passed(results)
       THEN EnterSteps("Compile")
       ELSE pc' = "report" /\ UNCHANGED <<kind, jobs, base, results>>
    /\ UNCHANGED <<cfg, cancel, runVars, stream, observed, snap, sup, readers, specVars>>

\* After the Generate call: the poll, the counters, the gate before Compile.
GeneratePoll ==
    /\ pc = "phase_poll"
    /\ kind = "Generate"
    /\ IF is_cancelled
       THEN AbortRun /\ UNCHANGED <<kind, jobs, base, results, summary, phases>>
       ELSE /\ summary' = Tally(summary, results)
            /\ phases' = [phases EXCEPT !.generate = Some(results)]
            /\ IF cfg.compile /\ all_passed(results)
               THEN EnterSteps("Compile")
               ELSE pc' = "report" /\ UNCHANGED <<kind, jobs, base, results>>
            /\ UNCHANGED <<stream, observed>>
    /\ UNCHANGED <<cfg, cancel, runVars, snap, sup, readers, specVars>>

\* After the Compile call: the poll and the counters.
CompilePoll ==
    /\ pc = "phase_poll"
    /\ kind = "Compile"
    /\ IF is_cancelled
       THEN AbortRun /\ UNCHANGED <<summary, phases>>
       ELSE /\ summary' = Tally(summary, results)
            /\ phases' = [phases EXCEPT !.compile = Some(results)]
            /\ pc' = "report"
            /\ UNCHANGED <<stream, observed>>
    /\ UNCHANGED <<cfg, cancel, kind, jobs, base, results, runVars, snap, sup, readers, specVars>>

\* ValidateReport, without the file name and the log texts.
Report == [mode |-> cfg.mode, phases |-> phases, summary |-> summary]

SendCompleted ==
    /\ pc = "report"
    /\ stream' = Send(stream, Completed(Report))
    /\ pc' = "done"
    /\ UNCHANGED <<cfg, cancel, kind, jobs, base, results, summary, phases,
                   runVars, observed, snap, sup, readers, specVars>>

\* ------------------------------------------------------------ specification

Next ==
    \/ Cancel
    \/ RunPipeline
    \/ LintStart
    \/ LintSkip
    \/ LintFinish
    \/ LintPoll
    \/ GenerateEnter
    \/ ChunkPoll
    \/ SpawnWorker
    \/ JoinWorker
    \/ GeneratePoll
    \/ CompilePoll
    \/ SendCompleted
    \/ \E i \in Slots : WorkerStart(i)
    \/ \E i \in Slots : ContainerSpawn(i)
    \/ \E i \in Slots : WorkerRecv(i)
    \/ \E i \in Slots : WorkerFinish(i)
    \/ \E i \in Slots, s \in Streams : ReadLine(i, s)
    \/ \E i \in Slots, c \in ChildEnds \cup {"running"}, elapsed \in BOOLEAN :
            Supervise(i, c, elapsed)

Spec == Init /\ [][Next]_vars

\* ------------------------------------------------ properties of the stream
Terminal == IF stream.terminals = <<>> THEN "none" ELSE stream.terminals[1].type
FinishedSteps == {f[1] : f \in stream.finished}
Running == {i \in Slots : child[i] = "running"}
StepsOf(k) == {StepId(k, i) : i \in 1..MaxSteps}

\* C1: every event stream holds exactly one terminal event, Completed or
\* Aborted and never both, and no event of any kind is delivered after it:
\* at most one terminal event has been sent, once one has been sent it is
\* the last event sent, and a run that has ended has sent one.
C1_OneTerminalLast ==
    /\ Len(stream.terminals) <= 1
    /\ stream.terminals # <<>> => IsTerminal(stream.last)
    /\ pc = "done" => Len(stream.terminals) = 1

C1_Witness ==
    /\ pc = "done"
    /\ Terminal = "Aborted"
    /\ Cardinality(stream.started) >= 2

\* C2: for every started step, PhaseStarted comes before each of its Log
\* events, each Log before its PhaseFinished, and PhaseFinished before the
\* terminal event, also for steps running concurrently in one chunk. Stated
\* on the event just sent: a PhaseStarted is for a step not finished, a Log
\* for a step started and not finished, a PhaseFinished for a step started
\* and finished once, and none of them follows a terminal event.
C2_StepEventOrder ==
    LET e == stream.last IN
    /\ e.type = "PhaseStarted" =>
            e.step \notin FinishedSteps /\ stream.terminals = <<>>
    /\ e.type = "Log" =>
            /\ e.step \in stream.started
            /\ e.step \notin FinishedSteps
            /\ stream.terminals = <<>>
    /\ e.type = "PhaseFinished" =>
            /\ e.step \in stream.started
            /\ Cardinality({f \in stream.finished : f[1] = e.step}) = 1
            /\ stream.terminals = <<>>
    /\ FinishedSteps \subseteq stream.started

C2_Witness ==
    /\ stream.last.type = "Log"
    /\ \E s \in stream.started \ FinishedSteps :
            s # stream.last.step /\ s[1] = stream.last.step[1]

\* C3: in a run in which a Generate step finished with status fail, no
\* Compile step is ever started and the report has no compile record.
C3_GenerateGate ==
    (\E s \in StepsOf("Generate") : <<s, FALSE>> \in stream.finished) =>
        /\ stream.started \cap StepsOf("Compile") = {}
        /\ phases.compile = <<>>
        /\ Terminal = "Completed" => stream.terminals[1].report.phases.compile = <<>>

C3_Witness ==
    /\ Terminal = "Completed"
    /\ cfg.compile
    /\ \E s, t \in StepsOf("Generate") :
            <<s, FALSE>> \in stream.finished /\ <<t, TRUE>> \in stream.finished

\* C4: when a poll of the scheduler (after lint, at a chunk boundary, after
\* Generate, after Compile) finds the cancel flag set, no further step is
\* launched after that poll and the run ends with Aborted("Cancelled by
\* user"): from then on the scheduler is at the abort or has ended, no
\* thread is alive, the started steps are those started at the poll, and
\* the terminal event, once sent, is that Aborted.
C4_PollAborts ==
    observed.seen =>
        /\ pc \in {"phase_poll", "done"}
        /\ stream.started = observed.started
        /\ \A i \in Slots : worker[i].pc = "idle"
        /\ Terminal # "Completed"
        /\ pc = "done" =>
            Terminal = "Aborted" /\ stream.terminals[1].reason = "Cancelled by user"

C4_Witness ==
    /\ observed.seen
    /\ pc = "done"
    /\ kind = "Generate"
    /\ base > 0 /\ base < Len(generators)

\* C5 as claimed: in a run cancelled after its start, no PhaseStarted
\* appears after the moment of cancellation for a step not already launched
\* at that moment, the lint step and the steps of a chunk whose cancel check
\* has already passed included: once the flag is set, no step that is not
\* launched is launched or started.
C5_NoStartAfterCancel ==
    [][snap.at = "run" => Launched' \subseteq Launched]_vars

\* C5 as amended: in a run cancelled after its start, no PhaseStarted
\* appears after the moment of cancellation for a step that still had a
\* cancel poll of the scheduler before it at that moment (a step of a chunk
\* whose chunk-boundary poll had not yet been taken).
C5_NoStartPastPoll ==
    snap.at = "run" => stream.started \subseteq snap.past

C5_Witness ==
    /\ pc = "done"
    /\ snap.at = "run"
    /\ StepId("Generate", 1) \in stream.started
    /\ \E i \in 1..Len(generators) : StepId("Generate", i) \notin snap.past

\* C6: within the Generate phase and within the Compile phase at most
\* `jobs` containers run at any moment, and no step of a later chunk emits
\* PhaseStarted before every step of the chunks before it has emitted
\* PhaseFinished.
C6_BoundedChunks ==
    kind # "none" =>
        /\ Cardinality(Running) <= jobs
        /\ \A i, j \in 1..Len(generators) :
            ((j - 1) \div jobs < (i - 1) \div jobs /\ StepId(kind, i) \in stream.started)
                => StepId(kind, j) \in FinishedSteps

C6_Witness ==
    /\ jobs = 2
    /\ base = 2
    /\ child[3] = "running"
    /\ kind = "Compile"

\* C8: if the cancel flag is never set during a run the terminal event is
\* Completed, whatever steps fail; Aborted is emitted only in runs where the
\* flag was set.
C8_AbortOnlyOnCancel ==
    /\ Terminal = "Aborted" => cancel
    /\ (pc = "done" /\ ~cancel) => Terminal = "Completed"

C8_Witness ==
    /\ pc = "done"
    /\ ~cancel
    /\ Terminal = "Completed"
    /\ <<LintId, FALSE>> \in stream.finished
    /\ \E s \in StepsOf("Generate") : <<s, FALSE>> \in stream.finished

\* The number of step results in an optional phase record.
Records(opt) == IF opt = <<>> THEN 0 ELSE Len(opt[1])

\* C9: for every Completed report, summary.total = summary.passed +
\* summary.failed, and summary.total is the number of step results in the
\* populated phase records (1 for lint, the lengths of generate and compile).
C9_SummaryCounts ==
    Terminal = "Completed" =>
        LET r == stream.terminals[1].report IN
        /\ r.summary.total = r.summary.passed + r.summary.failed
        /\ r.summary.total =
                Len(r.phases.lint) + Records(r.phases.generate) + Records(r.phases.compile)

C9_Witness ==
    /\ Terminal = "Completed"
    /\ LET r == stream.terminals[1].report IN
        /\ r.phases.lint # <<>>
        /\ r.phases.compile # <<>>
        /\ r.summary.failed > 0
        /\ r.summary.total >= 5

\* The status a report records for a step, as a set of 0 or 1 statuses.
Recorded(r, s) ==
    CASE s[1] = "Lint" -> {r.phases.lint[n].status : n \in DOMAIN r.phases.lint}
      [] s[1] = "Generate" ->
            IF r.phases.generate = <<>> THEN {}
            ELSE {r.phases.generate[1][n].status : n \in DOMAIN r.phases.generate[1] \cap {s[2]}}
      [] s[1] = "Compile" ->
            IF r.phases.compile = <<>> THEN {}
            ELSE {r.phases.compile[1][n].status : n \in DOMAIN r.phases.compile[1] \cap {s[2]}}

AllSteps == {LintId} \cup StepsOf("Generate") \cup StepsOf("Compile")

\* C10: for every step recorded in a Completed report, the success flag of
\* its PhaseFinished event is true exactly when the recorded status is
\* "pass", and false exactly when it is "fail".
C10_FinishedMatchesStatus ==
    Terminal = "Completed" =>
        \A s \in AllSteps : \A st \in Recorded(stream.terminals[1].report, s) :
            /\ st \in {"pass", "fail"}
            /\ {f[2] : f \in {g \in stream.finished : g[1] = s}} = {st = "pass"}

C10_Witness ==
    /\ Terminal = "Completed"
    /\ \E s, t \in AllSteps :
        /\ "pass" \in Recorded(stream.terminals[1].report, s)
        /\ "fail" \in Recorded(stream.terminals[1].report, t)
        /\ s[1] = "Compile" /\ t[1] = "Compile"

\* ------------------------------------------------------------------ fairness
\* Every thread of the program that can take a step eventually takes it,
\* and wall-clock time passes: a supervisor whose child keeps running
\* eventually finds the timeout elapsed. Nothing is assumed of the user
\* (Cancel), of a child ending by itself, or of the lines it prints.
Fairness ==
    /\ WF_vars(LintStart) /\ WF_vars(LintSkip) /\ WF_vars(LintFinish) /\ WF_vars(LintPoll)
    /\ WF_vars(GenerateEnter) /\ WF_vars(ChunkPoll) /\ WF_vars(SpawnWorker)
    /\ WF_vars(JoinWorker) /\ WF_vars(GeneratePoll) /\ WF_vars(CompilePoll)
    /\ WF_vars(SendCompleted)
    /\ \A i \in Slots :
        /\ WF_vars(WorkerStart(i))
        /\ WF_vars(ContainerSpawn(i))
        /\ WF_vars(WorkerRecv(i))
        /\ WF_vars(WorkerFinish(i))
        /\ WF_vars(Supervise(i, "running", TRUE))

FairSpec == Spec /\ Fairness

\* C7: under fair scheduling every run of the pipeline eventually emits its
\* terminal event, also when the flag is set before run_pipeline is called
\* and when a container never exits by itself; the pipeline never hangs.
C7_Terminates == (pc # "new") ~> (pc = "done" /\ Terminal # "none")

C7_Witness ==
    /\ pc = "lint_run"
    /\ snap.at = "new"
    /\ chan[LintSlot] # <<>>
    /\ Head(chan[LintSlot]).item = "Done"
    /\ Head(chan[LintSlot]).result.cancelled

\* ------------------------------------------------ failures and later steps
\* C12: in a run where the cancel flag is never set, a failed step does not
\* keep any other step of its phase from running: once the run has
\* completed, every step of the Generate list, of the same chunk and of
\* later chunks, has been started and finished, and the generate record has
\* one result per step, in list order.
C12_FailureDoesNotStopPhase ==
    (Terminal = "Completed" /\ ~cancel /\ cfg.generate /\ generators # <<>>) =>
        LET r == stream.terminals[1].report IN
        /\ \A i \in 1..Len(generators) :
            /\ StepId("Generate", i) \in stream.started
            /\ StepId("Generate", i) \in FinishedSteps
        /\ Records(r.phases.generate) = Len(generators)
        /\ \A i \in 1..Len(generators) :
            /\ r.phases.generate[1][i].generator = generators[i][1]
            /\ r.phases.generate[1][i].scope = generators[i][2]

C12_Witness ==
    /\ Terminal = "Completed"
    /\ ~cancel
    /\ jobs = 2
    /\ Len(generators) = 3
    /\ <<StepId("Generate", 1), FALSE>> \in stream.finished
    /\ <<StepId("Generate", 2), TRUE>> \in stream.finished
    /\ StepId("Generate", 3) \in FinishedSteps

\* C13: a failed lint step does not gate the later phases: in a completed
\* run in which lint failed and the flag was not set, every step of an
\* enabled Generate phase has been started, and when all of them passed and
\* Compile is enabled every Compile step has been started and the report
\* has a compile record.
C13_LintDoesNotGate ==
    (Terminal = "Completed" /\ ~cancel /\ <<LintId, FALSE>> \in stream.finished) =>
        /\ cfg.generate =>
            \A i \in 1..Len(generators) : StepId("Generate", i) \in stream.started
        /\ (/\ cfg.generate /\ cfg.compile /\ generators # <<>>
            /\ \A i \in 1..Len(generators) :
                    <<StepId("Generate", i), TRUE>> \in stream.finished) =>
                /\ \A i \in 1..Len(generators) : StepId("Compile", i) \in stream.started
                /\ stream.terminals[1].report.phases.compile # <<>>

C13_Witness ==
    /\ Terminal = "Completed"
    /\ ~cancel
    /\ <<LintId, FALSE>> \in stream.finished
    /\ StepId("Compile", 2) \in stream.started

\* ----------------------------------------------------------- the cancel flag
\* C17: the cancel flag is one-way: it starts unset, no step of the user,
\* the pipeline or the runner takes it from set to unset, and once cancel()
\* has been called it reads set in every later state.
C17_FlagOneWay ==
    /\ ~cancel
    /\ [][(cancel => cancel') /\ (snap'.at # "never" => cancel')]_vars

C17_Witness ==
    /\ cancel
    /\ snap.at = "new"
    /\ pc = "done"
    /\ Cardinality(stream.started) >= 1

\* ------------------------------------------------------- records and phases
\* C18: in every Completed report each of the three phase records is
\* present iff at least one step of that phase was executed in the run, and
\* a generate or compile record that is present holds at least one result.
C18_RecordsIffExecuted ==
    Terminal = "Completed" =>
        LET r == stream.terminals[1].report IN
        /\ r.phases.lint # <<>> <=> LintId \in stream.started
        /\ r.phases.generate # <<>> <=> stream.started \cap StepsOf("Generate") # {}
        /\ r.phases.compile # <<>> <=> stream.started \cap StepsOf("Compile") # {}
        /\ r.phases.generate # <<>> => Records(r.phases.generate) >= 1
        /\ r.phases.compile # <<>> => Records(r.phases.compile) >= 1

C18_Witness ==
    /\ Terminal = "Completed"
    /\ cfg.lint /\ cfg.generate /\ cfg.compile
    /\ LET r == stream.terminals[1].report IN
        /\ r.phases.lint = <<>>
        /\ r.phases.generate # <<>>
        /\ r.phases.compile = <<>>

\* The phase of the event sent last, "none" for no event or a terminal one.
LastKind ==
    IF stream.last.type \in {"PhaseStarted", "Log", "PhaseFinished"}
    THEN stream.last.step[1] ELSE "none"

\* C19: a phase whose enable flag is false or whose step list is empty sends
\* no PhaseStarted, Log or PhaseFinished and leaves no record; with lint
\* disabled and no generators the only event ever sent is Completed, with no
\* phase records and summary {0,0,0}. Every event is the last one sent in
\* the state after its send, so the conditions on the last event hold of
\* every event of the stream.
C19_SkippedPhaseSilent ==
    /\ ~(cfg.lint /\ cfg.linter # "none") => LastKind # "Lint" /\ LintId \notin stream.started /\ phases.lint = <<>>
    /\ ~(cfg.generate /\ generators # <<>>) =>
            /\ LastKind \notin {"Generate", "Compile"}
            /\ stream.started \cap (StepsOf("Generate") \cup StepsOf("Compile")) = {}
            /\ phases.generate = <<>> /\ phases.compile = <<>>
    /\ ~cfg.compile =>
            /\ LastKind # "Compile"
            /\ stream.started \cap StepsOf("Compile") = {}
            /\ phases.compile = <<>>
    /\ (~(cfg.lint /\ cfg.linter # "none") /\ generators = <<>>) =>
            /\ stream.last.type \in {"None", "Completed"}
            /\ stream.started = {} /\ stream.finished = {}
            /\ stream.last.type = "None" <=> pc # "done"
            /\ pc = "done" =>
                /\ Len(stream.terminals) = 1
                /\ stream.last.report.phases = NoPhases
                /\ stream.last.report.summary = [total |-> 0, passed |-> 0, failed |-> 0]

C19_Witness ==
    /\ pc = "done"
    /\ ~cfg.lint /\ cfg.linter # "none" /\ cfg.generate /\ cfg.compile
    /\ generators = <<>>
    /\ cancel
    /\ stream.last.type = "Completed"

C20_NoAliasing ==
    kind = "Generate" =>
        \A i, j \in Running \ {LintSlot} :
            i # j => output_dir(generators[i]) # output_dir(generators[j])


\* ------------------------------------------- run_container on any stream
\* run_container as a function of what docker::spawn hands it: an error, or
\* a receiver on which any sequence of OutputLine items arrives before the
\* last sender is dropped, with or without a Done item among them.
DoneResults ==
    [success : BOOLEAN, exit_code : {<<>>, Some(0), Some(1)},
     cancelled : BOOLEAN, timed_out : BOOLEAN]

StreamItems ==
    {[item |-> "Line", line |-> 1]} \cup {[item |-> "Done", result |-> r] : r \in DoneResults}

AnyStreams == SeqsUpTo(StreamItems, MaxItems)

\* The lint step at its call of run_container, nothing else enabled.
ContainerInit ==
    /\ cfg \in {c \in Configs :
                /\ c.lint /\ c.linter = "spectral" /\ ~c.generate /\ ~c.compile
                /\ c.mode = "server" /\ c.jobs = <<"Auto", 0>>
                /\ c.server_generators = <<>> /\ c.client_generators = <<>>}
    /\ cancel = FALSE
    /\ pc = "lint_run"
    /\ kind = "none"
    /\ jobs = 1
    /\ base = 0
    /\ results = <<>>
    /\ summary = [total |-> 0, passed |-> 0, failed |-> 0]
    /\ phases = NoPhases
    /\ worker = [i \in Slots |-> IF i = LintSlot
                                 THEN [pc |-> "started", success |-> FALSE]
                                 ELSE IdleWorker]
    /\ child = [i \in Slots |-> "none"]
    /\ budget = [i \in Slots |-> 0]
    /\ chan = [i \in Slots |-> <<>>]
    /\ stream = Send(EmptyStream, PhaseStarted("Lint", LintSlot))
    /\ observed = NotObserved
    /\ snap = NoSnap
    /\ sup = IdleSup
    /\ readers = IdleReaders
    /\ SpecIdle

\* Everything the other side of the channel does, at once: it sends some
\* sequence of items and drops its senders.
AnyStream(i) ==
    /\ child[i] = "running"
    /\ \E str \in AnyStreams : chan' = [chan EXCEPT ![i] = str]
    /\ child' = [child EXCEPT ![i] = "none"]
    /\ budget' = [budget EXCEPT ![i] = 0]
    /\ UNCHANGED <<cfg, cancel, schedVars, worker, stream, observed, snap, sup, readers, specVars>>

\* `for line in container_rx` on an empty channel whose senders are gone:
\* the loop ends and `success` keeps the value it has.
WorkerRecvClosed(i) ==
    /\ worker[i].pc = "drain"
    /\ chan[i] = <<>>
    /\ child[i] # "running"
    /\ worker' = [worker EXCEPT ![i].pc = "finish"]
    /\ UNCHANGED <<cfg, cancel, schedVars, child, budget, chan, stream, observed, snap, sup, readers, specVars>>

ContainerNext ==
    \/ ContainerSpawn(LintSlot)
    \/ AnyStream(LintSlot)
    \/ WorkerRecv(LintSlot)
    \/ WorkerRecvClosed(LintSlot)
    \/ LintFinish

ContainerSpec == ContainerInit /\ [][ContainerNext]_vars

\* C11: a step ends in Pass iff its container outcome has success=true and
\* cancelled=false, and in Fail in every other case: when run_container
\* leaves its loop the step's success is true exactly when the item that
\* ended the loop is a Done whose outcome has success and not cancelled
\* (false when the stream closed without a Done), a failed spawn gives
\* false, and the recorded status is "pass" exactly for a true success.
C11_PassIffSuccessNotCancelled ==
    [][/\ \A i \in Slots :
            (worker[i].pc = "drain" /\ worker'[i].pc = "finish") =>
                worker'[i].success =
                    (/\ chan[i] # <<>>
                     /\ Head(chan[i]).item = "Done"
                     /\ Head(chan[i]).result.success
                     /\ ~Head(chan[i]).result.cancelled)
       /\ \A i \in Slots :
            (worker[i].pc = "started" /\ worker'[i].pc = "finish") => ~worker'[i].success
       /\ (phases.lint = <<>> /\ phases'.lint # <<>>) =>
            (phases'.lint[1].status = "pass" <=> worker[LintSlot].success)
       /\ (phases.lint = <<>> /\ phases'.lint # <<>>) =>
            phases'.lint[1].status \in {"pass", "fail"}]_vars

C11_Witness ==
    /\ pc = "lint_poll"
    /\ phases.lint # <<>>
    /\ phases.lint[1].status = "pass"
    /\ stream.finished = {<<LintId, TRUE>>}

\* --------------------------------------------- the runner, step by step
\* One container from the return of docker::spawn on: the child and its two
\* pipes, the two reader threads, and the supervisor thread through its
\* poll loop, its two joins and its send of Done. Nothing reads the channel,
\* so chan[LintSlot] is the stream as sent.
RunnerInit ==
    /\ cfg \in {c \in Configs :
                /\ c.lint /\ c.linter = "spectral" /\ ~c.generate /\ ~c.compile
                /\ c.mode = "server" /\ c.jobs = <<"Auto", 0>>
                /\ c.server_generators = <<>> /\ c.client_generators = <<>>}
    /\ cancel = FALSE
    /\ pc = "lint_run"
    /\ kind = "none"
    /\ jobs = 1
    /\ base = 0
    /\ results = <<>>
    /\ summary = [total |-> 0, passed |-> 0, failed |-> 0]
    /\ phases = NoPhases
    /\ worker = [i \in Slots |-> IF i = LintSlot
                                 THEN [pc |-> "drain", success |-> FALSE]
                                 ELSE IdleWorker]
    /\ child = [i \in Slots |-> IF i = LintSlot THEN "running" ELSE "none"]
    /\ budget = [i \in Slots |-> IF i = LintSlot THEN MaxWrites ELSE 0]
    /\ chan = [i \in Slots |-> <<>>]
    /\ stream = Send(EmptyStream, PhaseStarted("Lint", LintSlot))
    /\ observed = NotObserved
    /\ snap = NoSnap
    /\ sup = [pc |-> "poll", outcome |-> NoOutcome, late |-> FALSE, log_buf |-> <<>>]
    /\ readers = [s \in Streams |-> [state |-> "reading", unread |-> 0, sent |-> 0]]
    /\ SpecIdle

\* The child writes a line to one of its pipes.
ChildWrite(i, s) ==
    /\ child[i] = "running"
    /\ budget[i] > 0
    /\ budget' = [budget EXCEPT ![i] = @ - 1]
    /\ readers' = [readers EXCEPT ![s].unread = @ + 1]
    /\ UNCHANGED <<cfg, cancel, schedVars, worker, child, chan, stream, observed, snap, sup, specVars>>

\* The child ends by itself; what it wrote stays in the pipes.
ChildExit(i, e) ==
    /\ child[i] = "running"
    /\ child' = [child EXCEPT ![i] = e]
    /\ UNCHANGED <<cfg, cancel, schedVars, worker, budget, chan, stream, observed, snap,
                   sup, readers, specVars>>

\* The text of the n-th line the child writes to pipe s.
LineText(s, n) ==
    <<IF s = "Stdout" THEN "o" ELSE "e",
      <<"1", "2", "3", "4", "5", "6", "7", "8", "9">>[n]>>

\* A reader thread reads a line of its pipe and, under the lock of the
\* shared buffer, appends the line and a newline to log_buf; the lock is
\* released before the line is sent.
ReaderPush(i, s) ==
    /\ readers[s].state = "reading"
    /\ readers[s].unread > 0
    /\ readers' = [readers EXCEPT ![s].unread = @ - 1, ![s].state = "pushed"]
    /\ sup' = [sup EXCEPT !.log_buf = @ \o LineText(s, readers[s].sent + 1) \o <<LF>>]
    /\ UNCHANGED <<cfg, cancel, schedVars, runVars, stream, observed, snap, specVars>>

\* The reader thread sends the line it has just appended to the buffer.
ReaderSend(i, s) ==
    /\ readers[s].state = "pushed"
    /\ readers' = [readers EXCEPT ![s].sent = @ + 1, ![s].state = "reading"]
    /\ chan' = [chan EXCEPT ![i] =
                    Append(@, [item |-> "Line", line |-> <<s, readers[s].sent + 1>>])]
    /\ UNCHANGED <<cfg, cancel, schedVars, worker, child, budget, stream, observed, snap, sup, specVars>>

\* End of file: the pipe is empty and the child, its only writer, is gone.
ReaderEof(i, s) ==
    /\ readers[s].state = "reading"
    /\ readers[s].unread = 0
    /\ child[i] # "running"
    /\ readers' = [readers EXCEPT ![s].state = "ended"]
    /\ UNCHANGED <<cfg, cancel, schedVars, runVars, stream, observed, snap, sup, specVars>>

\* `Err(_) => break`: a line that cannot be read ends the reader.
ReaderErr(i, s) ==
    /\ readers[s].state = "reading"
    /\ readers[s].unread > 0
    /\ readers' = [readers EXCEPT ![s].state = "ended"]
    /\ UNCHANGED <<cfg, cancel, schedVars, runVars, stream, observed, snap, sup, specVars>>

\* The iteration of the poll loop that leaves it; a kill is followed by
\* child.wait(), so the child is gone when the loop is left. sup.late keeps
\* whether the timeout had elapsed at that iteration, looked at or not.
Poll(i, elapsed) ==
    /\ sup.pc = "poll"
    /\ LET o == PollOutcome(child[i], is_cancelled, elapsed) IN
        /\ o.status # "sleep"
        /\ sup' = [sup EXCEPT !.pc = "join_out", !.outcome = o, !.late = elapsed]
        /\ child' = [child EXCEPT ![i] =
                        IF o.cancelled THEN "killed_cancel"
                        ELSE IF o.timed_out THEN "killed_timeout" ELSE @]
    /\ UNCHANGED <<cfg, cancel, schedVars, worker, budget, chan, stream, observed, snap,
                   readers, specVars>>

\* Mutant of JoinOut: the stderr reader is not joined.
JoinOutOnly ==
    /\ sup.pc = "join_out"
    /\ readers["Stdout"].state = "ended"
    /\ sup' = [sup EXCEPT !.pc = "send"]
    /\ UNCHANGED <<cfg, cancel, schedVars, runVars, stream, observed, snap, readers, specVars>>

\* stdout_handle.join()
JoinOut ==
    /\ sup.pc = "join_out"
    /\ readers["Stdout"].state = "ended"
    /\ sup' = [sup EXCEPT !.pc = "join_err"]
    /\ UNCHANGED <<cfg, cancel, schedVars, runVars, stream, observed, snap, readers, specVars>>

\* stderr_handle.join()
JoinErr ==
    /\ sup.pc = "join_err"
    /\ readers["Stderr"].state = "ended"
    /\ sup' = [sup EXCEPT !.pc = "send"]
    /\ UNCHANGED <<cfg, cancel, schedVars, runVars, stream, observed, snap, readers, specVars>>

\* The finalize block: tx.send(OutputLine::Done(..)) with the outcome and
\* the text of log_buf, and the thread ends.
SendDone(i) ==
    /\ sup.pc = "send"
    /\ chan' = [chan EXCEPT ![i] =
                    Append(@, [item |-> "Done", result |-> ContainerResult(sup.outcome),
                               log |-> sup.log_buf])]
    /\ sup' = [sup EXCEPT !.pc = "ended"]
    /\ UNCHANGED <<cfg, cancel, schedVars, worker, child, budget, stream, observed, snap,
                   readers, specVars>>

RunnerNext ==
    \/ Cancel
    \/ \E s \in Streams : ChildWrite(LintSlot, s)
    \/ \E e \in ChildEnds : ChildExit(LintSlot, e)
    \/ \E s \in Streams : ReaderPush(LintSlot, s)
    \/ \E s \in Streams : ReaderSend(LintSlot, s)
    \/ \E s \in Streams : ReaderEof(LintSlot, s)
    \/ \E s \in Streams : ReaderErr(LintSlot, s)
    \/ \E elapsed \in BOOLEAN : Poll(LintSlot, elapsed)
    \/ JoinOut
    \/ JoinErr
    \/ SendDone(LintSlot)

RunnerSpec == RunnerInit /\ [][RunnerNext]_vars

\* The lines of pipe s among the items sent so far.
LinesOf(s) == {k \in DOMAIN chan[LintSlot] :
                /\ chan[LintSlot][k].item = "Line"
                /\ chan[LintSlot][k].line[1] = s}

\* The Done items sent so far.
DoneAt == {k \in DOMAIN chan[LintSlot] : chan[LintSlot][k].item = "Done"}

\* C14: on the stream of a runner Done is sent exactly once and is the last
\* item, after every line of both reader threads, however the child ended:
\* no item follows a Done, none is sent before the supervisor's send, and
\* once the supervisor has ended the stream ends with its one Done, both
\* readers have ended and each line they sent stands before it.
C14_DoneOnceLast ==
    /\ \A k \in DoneAt : k = Len(chan[LintSlot])
    /\ sup.pc # "ended" => DoneAt = {}
    /\ sup.pc = "ended" =>
        /\ DoneAt = {Len(chan[LintSlot])}
        /\ \A s \in Streams :
            /\ readers[s].state = "ended"
            /\ Cardinality(LinesOf(s)) = readers[s].sent
            /\ \A k \in LinesOf(s) : k < Len(chan[LintSlot])

C14_Witness ==
    /\ sup.pc = "ended"
    /\ child[LintSlot] = "killed_timeout"
    /\ readers["Stdout"].sent = 1
    /\ readers["Stderr"].sent = 1
    /\ chan[LintSlot][1].line[1] = "Stderr"

\* C16: in every Done outcome: if the supervisor killed the child because
\* the cancel flag was set then cancelled=true and success=false; if it
\* killed it because the timeout had elapsed then timed_out=true and
\* success=false; otherwise success is true exactly when the child's exit
\* code is 0, and neither cancelled nor timed_out is set.
C16_OutcomeFields ==
    \A k \in DoneAt :
        LET r == chan[LintSlot][k].result IN
        /\ child[LintSlot] = "killed_cancel" => r.cancelled /\ ~r.success
        /\ child[LintSlot] = "killed_timeout" => r.timed_out /\ ~r.success
        /\ child[LintSlot] \in ChildEnds =>
            /\ r.success <=> child[LintSlot] = "exit0"
            /\ r.success <=> r.exit_code = Some(0)
            /\ ~r.cancelled /\ ~r.timed_out
        /\ child[LintSlot] \in ChildEnds \cup {"killed_cancel", "killed_timeout"}

C16_Witness ==
    /\ DoneAt # {}
    /\ child[LintSlot] = "exit1"
    /\ cancel
    /\ LinesOf("Stdout") # {}

\* The text of the lines among `items`, in their order on the channel, each
\* followed by a newline.
RECURSIVE DeliveredText(_)
DeliveredText(items) ==
    IF items = <<>> THEN <<>>
    ELSE (IF Head(items).item = "Line"
          THEN LineText(Head(items).line[1], Head(items).line[2]) \o <<LF>>
          ELSE <<>>) \o DeliveredText(Tail(items))

\* C35: the log carried by the Done outcome of the runner is the text of the
\* Stdout and Stderr lines in the order in which they were delivered on the
\* output channel, each followed by a newline, however the two reader
\* threads interleave.
C35_LogInDeliveryOrder ==
    \A k \in DoneAt : chan[LintSlot][k].log = DeliveredText(chan[LintSlot])

\* C38: no outcome of the runner has cancelled and timed_out both set, and
\* the poll that leaves the supervisor's loop follows a fixed priority: a
\* child that has already exited is reported by how it exited, with neither
\* field set, also when the cancel flag is set; a running child with the
\* flag set gives cancelled and not timed_out, also when the timeout has
\* elapsed; only a running child with the flag unset and the timeout
\* elapsed gives timed_out.
C38_PollPriority ==
    /\ [](/\ ~(sup.outcome.cancelled /\ sup.outcome.timed_out)
          /\ \A k \in DoneAt :
                /\ ~(chan[LintSlot][k].result.cancelled /\ chan[LintSlot][k].result.timed_out)
                /\ chan[LintSlot][k].result.cancelled = sup.outcome.cancelled
                /\ chan[LintSlot][k].result.timed_out = sup.outcome.timed_out)
    /\ [][(sup.pc = "poll" /\ sup'.pc # "poll") =>
            LET o == sup'.outcome IN
            /\ child[LintSlot] \in ChildEnds =>
                o.status = child[LintSlot] /\ ~o.cancelled /\ ~o.timed_out
            /\ (child[LintSlot] = "running" /\ cancel) =>
                o.cancelled /\ ~o.timed_out /\ child'[LintSlot] = "killed_cancel"
            /\ (child[LintSlot] = "running" /\ ~cancel) =>
                o.timed_out /\ ~o.cancelled /\ sup'.late]_vars

\* The flag was set and the timeout had elapsed at the poll that left the
\* loop, and Done has been sent.
C38_Witness ==
    /\ sup.pc = "ended"
    /\ sup.late
    /\ cancel
    /\ child[LintSlot] = "killed_cancel"
    /\ \E k \in DoneAt : chan[LintSlot][k].result.cancelled

\* ------------------------------------------- two runs of one chunked call
\* run_steps_parallel for the Generate phase, run twice on the same input and
\* with the same container behaviour: twin.behaviour[i] is the success that
\* run_container returns for step i in either run, and the cancel flag is set
\* in neither. Each run has its own scheduler position, threads and event
\* channel; events[k] is the k-th lifecycle event its receiver was sent.
TwinRuns == {1, 2}

TwinIdle == [pc |-> "chunk_poll", base |-> 0, events |-> <<>>,
             thread |-> [i \in 1..MaxSteps |-> "idle"]]

TwinInit ==
    /\ cfg \in {c \in Configs : /\ ~c.lint /\ c.linter = "none" /\ c.generate /\ ~c.compile
                                /\ c.mode = "both" /\ c.jobs[1] = "Fixed"}
    /\ cancel = FALSE
    /\ pc = "chunk_poll"
    /\ kind = "Generate"
    /\ jobs = JobsResolve(cfg.jobs, 0)
    /\ base = 0
    /\ results = <<>>
    /\ summary = [total |-> 0, passed |-> 0, failed |-> 0]
    /\ phases = NoPhases
    /\ worker = [i \in Slots |-> IdleWorker]
    /\ child = [i \in Slots |-> "none"]
    /\ budget = [i \in Slots |-> 0]
    /\ chan = [i \in Slots |-> <<>>]
    /\ stream = EmptyStream
    /\ observed = NotObserved
    /\ snap = NoSnap
    /\ sup = IdleSup
    /\ readers = IdleReaders
    /\ twin \in {[behaviour |-> b, run |-> [r \in TwinRuns |-> TwinIdle]] :
                    b \in [1..Len(build_generator_list(cfg)) -> BOOLEAN]}
    /\ disk = <<>>
    /\ edit = NoEdit
    /\ app = NoApp
    /\ ask = NoAsk
    /\ tui = NoTui

TwinUnchanged ==
    UNCHANGED <<cfg, cancel, schedVars, runVars, stream, observed, snap, sup, readers,
                disk, edit, app, ask, tui>>

\* generators.chunks(jobs): the steps of the chunk run r stands at.
TwinChunkOf(r) ==
    (twin.run[r].base + 1)..Min(twin.run[r].base + jobs, Len(generators))

\* Head of the chunk loop of run r: the list is used up, or the next chunk
\* is entered (is_cancelled() is false in both runs).
TwinChunkPoll(r) ==
    /\ twin.run[r].pc = "chunk_poll"
    /\ twin' = [twin EXCEPT ![ "run" ][r].pc =
                    IF twin.run[r].base >= Len(generators) THEN "done" ELSE "chunk_spawn"]
    /\ TwinUnchanged

\* std::thread::spawn for the next step of the chunk, in list order.
TwinSpawn(r) ==
    /\ twin.run[r].pc = "chunk_spawn"
    /\ LET idle == {i \in TwinChunkOf(r) : twin.run[r].thread[i] = "idle"}
           i == CHOOSE j \in idle : \A h \in idle : j <= h IN
        /\ idle # {}
        /\ twin' = [twin EXCEPT ![ "run" ][r].thread[i] = "spawned",
                                ![ "run" ][r].pc =
                                    IF idle = {i} THEN "chunk_join" ELSE "chunk_spawn"]
    /\ TwinUnchanged

\* The thread of step i sends PhaseStarted.
TwinStart(r, i) ==
    /\ twin.run[r].thread[i] = "spawned"
    /\ twin' = [twin EXCEPT ![ "run" ][r].thread[i] = "started",
                            ![ "run" ][r].events =
                                Append(@, [type |-> "PhaseStarted", step |-> i, success |-> TRUE])]
    /\ TwinUnchanged

\* run_container has returned for step i; the thread sends PhaseFinished
\* with the outcome's success and returns its StepResult.
TwinFinish(r, i) ==
    /\ twin.run[r].thread[i] = "started"
    /\ twin' = [twin EXCEPT ![ "run" ][r].thread[i] = "ret",
                            ![ "run" ][r].events =
                                Append(@, [type |-> "PhaseFinished", step |-> i,
                                           success |-> twin.behaviour[i]])]
    /\ TwinUnchanged

\* Mutant of TwinJoin: the loop goes on to the next chunk once the first
\* handle of the chunk is joined.
TwinJoinFirstOnly(r) ==
    /\ twin.run[r].pc = "chunk_join"
    /\ LET open == {i \in TwinChunkOf(r) : twin.run[r].thread[i] # "joined"}
           i == CHOOSE j \in open : \A h \in open : j <= h IN
        /\ open # {}
        /\ twin.run[r].thread[i] = "ret"
        /\ twin' = [twin EXCEPT ![ "run" ][r].thread[i] = "joined",
                                ![ "run" ][r].base = @ + jobs,
                                ![ "run" ][r].pc = "chunk_poll"]
    /\ TwinUnchanged

\* handle.join() for the next handle, in list order; after the last one the
\* loop goes on to the next chunk.
TwinJoin(r) ==
    /\ twin.run[r].pc = "chunk_join"
    /\ LET open == {i \in TwinChunkOf(r) : twin.run[r].thread[i] # "joined"}
           i == CHOOSE j \in open : \A h \in open : j <= h IN
        /\ open # {}
        /\ twin.run[r].thread[i] = "ret"
        /\ twin' = [twin EXCEPT ![ "run" ][r].thread[i] = "joined",
                                ![ "run" ][r].base = IF open = {i} THEN @ + jobs ELSE @,
                                ![ "run" ][r].pc =
                                    IF open = {i} THEN "chunk_poll" ELSE "chunk_join"]
    /\ TwinUnchanged

TwinNext ==
    \E r \in TwinRuns :
        \/ TwinChunkPoll(r)
        \/ TwinSpawn(r)
        \/ TwinJoin(r)
        \/ \E i \in 1..MaxSteps : TwinStart(r, i) \/ TwinFinish(r, i)

TwinSpec == TwinInit /\ [][TwinNext]_vars

TwinDone == \A r \in TwinRuns : twin.run[r].pc = "done"
TwinEvents(r) == twin.run[r].events
\* The chunk each event of run r belongs to, in the order of the events.
TwinChunks(r) == [k \in DOMAIN TwinEvents(r) |-> (TwinEvents(r)[k].step - 1) \div jobs]
TwinAt(r, t, i) ==
    CHOOSE k \in DOMAIN TwinEvents(r) : TwinEvents(r)[k].type = t /\ TwinEvents(r)[k].step = i

\* C21: two runs with the same input and the same container behaviour send
\* the same sequence of lifecycle events, also when a chunk holds two or
\* more steps.
C21_SameEventSequence == TwinDone => TwinEvents(1) = TwinEvents(2)

\* C21, as the code has it: the two runs send the same events; they send them
\* in the same order when every chunk holds one step; and in either run a
\* step's PhaseStarted stands before its PhaseFinished and the events of a
\* chunk stand before those of the next chunk. The events of the steps of
\* one chunk can come in different orders.
C21_SameChunkSequence ==
    TwinDone =>
        /\ {TwinEvents(1)[k] : k \in DOMAIN TwinEvents(1)}
               = {TwinEvents(2)[k] : k \in DOMAIN TwinEvents(2)}
        /\ Len(TwinEvents(1)) = 2 * Len(generators)
        /\ Len(TwinEvents(2)) = 2 * Len(generators)
        /\ TwinChunks(1) = TwinChunks(2)
        /\ \A r \in TwinRuns : \A i \in 1..Len(generators) :
               TwinAt(r, "PhaseStarted", i) < TwinAt(r, "PhaseFinished", i)
        /\ (jobs = 1 \/ Len(generators) <= 1) => TwinEvents(1) = TwinEvents(2)

C21_Witness ==
    /\ TwinDone
    /\ jobs = 2
    /\ Len(generators) = 3
    /\ TwinEvents(1) # TwinEvents(2)
    /\ TwinChunks(1) = TwinChunks(2)

\* ------------------------------------------------------ apply_fix on bytes
MaxContent == 4         \* bytes of the longest spec file explored
MaxInserted == 2        \* lines of the longest `inserted` list explored
MaxNewLine == 2         \* bytes of the longest inserted line explored

\* The bytes told apart: a line feed, a carriage return, any other byte.
CR == "\r"
Bytes == {"a", LF, CR}
Contents == SeqsUpTo(Bytes, MaxContent)

\* The lines the rules put into a proposal: format!("{indent}key: ...") is
\* never empty, holds no line feed and ends in a quote or a colon.
NewLines == {l \in SeqsUpTo({"a"}, MaxNewLine) : l # <<>>}
InsertedLists == {v \in SeqsUpTo(NewLines, MaxInserted) : v # <<>>}
\* target_line of a proposal: every line of the file, 0, and values past the end.
TargetLines == 0..(MaxContent + 1)

ends_with(s, ch) == s # <<>> /\ s[Len(s)] = ch

\* str::split_inclusive('\n'): the pieces of s, each up to and with its line
\* feed; the last piece is what follows the last line feed, if anything does.
RECURSIVE split_inclusive(_)
split_inclusive(s) ==
    IF s = <<>> THEN <<>>
    ELSE LET feeds == {k \in DOMAIN s : s[k] = LF} IN
         IF feeds = {} THEN <<s>>
         ELSE LET k == CHOOSE j \in feeds : \A h \in feeds : j <= h IN
              <<SubSeq(s, 1, k)>> \o split_inclusive(SubSeq(s, k + 1, Len(s)))

\* The closure of str::lines: a piece loses its line feed and then one
\* carriage return before it; a piece without line feed is kept as it is.
strip_line(piece) ==
    IF ~ends_with(piece, LF) THEN piece
    ELSE LET l == SubSeq(piece, 1, Len(piece) - 1) IN
         IF ends_with(l, CR) THEN SubSeq(l, 1, Len(l) - 1) ELSE l

\* content.lines().map(String::from).collect()
lines(content) ==
    LET pieces == split_inclusive(content) IN
    [k \in DOMAIN pieces |-> strip_line(pieces[k])]

\* Mutant of insert: the element goes in before the one at index - 1.
insert_before(v, index, x) ==
    IF index = 0 THEN <<x>> \o v
    ELSE SubSeq(v, 1, index - 1) \o <<x>> \o SubSeq(v, index, Len(v))

\* Vec::insert(index, x), for index <= len.
insert(v, index, x) == SubSeq(v, 1, index) \o <<x>> \o SubSeq(v, index + 1, Len(v))

\* for (i, new_line) in inserted.iter().enumerate() { lines.insert(target_line + i, ..) }
RECURSIVE insert_all(_, _, _, _)
insert_all(v, target_line, inserted, i) ==
    IF i >= Len(inserted) THEN v
    ELSE insert_all(insert(v, target_line + i, inserted[i + 1]), target_line, inserted, i + 1)

\* Mutant of join: every element is followed by the separator.
RECURSIVE join_terminated(_, _)
join_terminated(v, sep) ==
    IF v = <<>> THEN <<>> ELSE v[1] \o <<sep>> \o join_terminated(Tail(v), sep)

\* [String]::join(sep): the elements with the separator between them.
RECURSIVE join(_, _)
join(v, sep) ==
    IF v = <<>> THEN <<>>
    ELSE IF Len(v) = 1 THEN v[1]
    ELSE v[1] \o <<sep>> \o join(Tail(v), sep)

\* Mutant of restore_newline: the output always ends in a line feed.
restore_newline_always(output, trailing_newline) == Append(output, LF)

\* if trailing_newline { output.push('\n') }
restore_newline(output, trailing_newline) ==
    IF trailing_newline THEN Append(output, LF) ELSE output

\* Mutant of apply_fix: a rejected proposal still writes the joined lines.
apply_fix_writes_anyway(content, target_line, inserted) ==
    LET ls == lines(content)
        trailing_newline == ends_with(content, LF) IN
    IF target_line > Len(ls)
    THEN [ok |-> FALSE, output |-> restore_newline(join(ls, LF), trailing_newline)]
    ELSE [ok |-> TRUE,
          output |-> restore_newline(join(insert_all(ls, target_line, inserted, 0), LF),
                                     trailing_newline)]

\* apply_fix on a file that reads as `content`: Err and the file as it was,
\* or Ok and the bytes written.
apply_fix(content, target_line, inserted) ==
    LET ls == lines(content)
        trailing_newline == ends_with(content, LF) IN
    IF target_line > Len(ls)
    THEN [ok |-> FALSE, output |-> content]
    ELSE [ok |-> TRUE,
          output |-> restore_newline(join(insert_all(ls, target_line, inserted, 0), LF),
                                     trailing_newline)]

PipelineIdle ==
    /\ cfg \in {c \in Configs : /\ ~c.lint /\ c.linter = "none" /\ ~c.generate /\ ~c.compile
                                /\ c.mode = "server" /\ c.jobs = <<"Auto", 0>>
                                /\ c.server_generators = <<>> /\ c.client_generators = <<>>}
    /\ cancel = FALSE
    /\ pc = "done"
    /\ kind = "none"
    /\ jobs = 1
    /\ base = 0
    /\ results = <<>>
    /\ summary = [total |-> 0, passed |-> 0, failed |-> 0]
    /\ phases = NoPhases
    /\ worker = [i \in Slots |-> IdleWorker]
    /\ child = [i \in Slots |-> "none"]
    /\ budget = [i \in Slots |-> 0]
    /\ chan = [i \in Slots |-> <<>>]
    /\ stream = EmptyStream
    /\ observed = NotObserved
    /\ snap = NoSnap
    /\ sup = IdleSup
    /\ readers = IdleReaders

PipelineUnchanged ==
    UNCHANGED <<cfg, cancel, schedVars, runVars, stream, observed, snap, sup, readers>>

FixInit ==
    /\ PipelineIdle
    /\ twin = NoTwin
    /\ disk \in Contents
    /\ edit = NoEdit
    /\ app = NoApp
    /\ ask = NoAsk
    /\ tui = NoTui

\* One call of apply_fix(proposal, spec_path) on the file as it stands.
ApplyFix(target_line, inserted) ==
    /\ edit.state = "none"
    /\ LET r == apply_fix(disk, target_line, inserted) IN
        /\ disk' = r.output
        /\ edit' = [state |-> IF r.ok THEN "ok" ELSE "err", before |-> disk,
                    target_line |-> target_line, inserted |-> inserted]
    /\ PipelineUnchanged
    /\ UNCHANGED <<twin, app, ask, tui>>

FixNext == \E t \in TargetLines, ins \in InsertedLists : ApplyFix(t, ins)

FixSpec == FixInit /\ [][FixNext]_vars

\* The lines of the file before the call, and the lines the claims expect after it.
OldLines == lines(edit.before)
ExpectedLines ==
    SubSeq(OldLines, 1, edit.target_line) \o edit.inserted
        \o SubSeq(OldLines, edit.target_line + 1, Len(OldLines))
RECURSIVE SumLen(_)
SumLen(v) == IF v = <<>> THEN 0 ELSE Len(v[1]) + 1 + SumLen(Tail(v))
\* A carriage return that str::lines leaves at the end of a line.
EndsInCR(v) == \E k \in DOMAIN v : ends_with(v[k], CR)
\* A carriage return that str::lines takes away with the line feed after it.
HasCRLF(s) == \E k \in 1..(Len(s) - 1) : s[k] = CR /\ s[k + 1] = LF

\* C22: after apply_fix with target_line t <= len(L) the file reads as
\* L[0..t], then the inserted lines in order, then L[t..]: every original
\* line is kept and the count grows by len(inserted).
C22_LinesInserted == edit.state = "ok" => lines(disk) = ExpectedLines

\* C22, as the code has it: the same, for a file none of whose lines ends in
\* a carriage return of its own; the count of lines grows by len(inserted)
\* for every file.
C22_LinesInsertedNoCR ==
    edit.state = "ok" =>
        /\ Len(lines(disk)) = Len(OldLines) + Len(edit.inserted)
        /\ ~EndsInCR(OldLines) => lines(disk) = ExpectedLines

C22_Witness ==
    /\ edit.state = "ok"
    /\ Len(OldLines) = 2
    /\ edit.target_line = 1
    /\ Len(edit.inserted) = 2
    /\ ~EndsInCR(OldLines)
    /\ HasCRLF(edit.before)
    /\ lines(disk) = ExpectedLines

\* C23: after a successful apply_fix the file ends with a newline iff the
\* original did, for every content and every valid target_line.
C23_TrailingNewlineKept ==
    edit.state = "ok" => (ends_with(disk, LF) <=> ends_with(edit.before, LF))

\* A file made only of newlines, fixed after its last line.
C23_Witness ==
    /\ edit.state = "ok"
    /\ edit.before = <<LF, LF>>
    /\ edit.target_line = 2
    /\ ends_with(disk, LF)

\* C24: the byte length after a fix is the original length plus the sum of
\* (length + 1) over the inserted lines, plus 1 if a newline had to be
\* reintroduced, for every original content.
C24_ByteLength ==
    edit.state = "ok" =>
        Len(disk) - (Len(edit.before) + SumLen(edit.inserted)) \in {0, 1}

\* C24, as the code has it: the sum exactly, for a file that is not empty
\* and has no carriage return before a line feed; one byte less than the sum
\* for the empty file.
C24_ByteLengthNonEmpty ==
    edit.state = "ok" =>
        /\ (edit.before # <<>> /\ ~HasCRLF(edit.before))
               => Len(disk) = Len(edit.before) + SumLen(edit.inserted)
        /\ edit.before = <<>> => Len(disk) = SumLen(edit.inserted) - 1

C24_Witness ==
    /\ edit.state = "ok"
    /\ edit.before = <<"a", LF, "a">>
    /\ edit.target_line = 2
    /\ Len(disk) = 3 + SumLen(edit.inserted)

\* C25: apply_fix with target_line greater than the number of lines returns
\* an error and leaves the file as it was.
C25_RejectUnchanged ==
    (edit.state # "none" /\ edit.target_line > Len(OldLines)) =>
        edit.state = "err" /\ disk = edit.before

C25_Witness ==
    /\ edit.state = "err"
    /\ edit.target_line = Len(OldLines) + 1
    /\ HasCRLF(edit.before)
    /\ disk = edit.before

\* ------------------------------------------------------------ the spec index
MaxSourceLines == 2     \* lines of the longest spec file the index is built from
MaxKeys == 2            \* keys of the longest key path resolved
MaxRadius == 2          \* largest radius of a context window asked for

SP == " "
None == <<>>
TAB == "\t"
\* char::is_whitespace, on the bytes told apart.
Whitespace == {SP, TAB, CR, LF}

starts_with(s, p) == Len(s) >= Len(p) /\ SubSeq(s, 1, Len(p)) = p
\* str::find(ch): the 0-based offset of the first ch, if there is one.
find(s, ch) ==
    LET hits == {k \in DOMAIN s : s[k] = ch} IN
    IF hits = {} THEN None ELSE Some((CHOOSE k \in hits : \A h \in hits : k <= h) - 1)

RECURSIVE trim_start_matches(_, _)
trim_start_matches(s, set) ==
    IF s # <<>> /\ s[1] \in set THEN trim_start_matches(Tail(s), set) ELSE s
RECURSIVE trim_end_matches(_, _)
trim_end_matches(s, set) ==
    IF s # <<>> /\ s[Len(s)] \in set
    THEN trim_end_matches(SubSeq(s, 1, Len(s) - 1), set) ELSE s
trim(s) == trim_end_matches(trim_start_matches(s, Whitespace), Whitespace)

\* Count leading ASCII spaces (tabs count as 1).
leading_spaces(line) == Len(line) - Len(trim_start_matches(line, {SP, TAB}))

\* Some((key, col_offset)) for a trimmed line that starts with a key.
extract_yaml_key(trimmed) ==
    LET array == starts_with(trimmed, <<"-", SP>>)
        effective == IF array THEN SubSeq(trimmed, 3, Len(trimmed)) ELSE trimmed
        col_offset == IF array THEN 2 ELSE 0 IN
    IF starts_with(effective, <<"\"">>) \/ starts_with(effective, <<"'">>)
    THEN LET quote == effective[1]
             rest == Tail(effective)
             end == find(rest, quote) IN
         IF end = None THEN None
         ELSE LET key == SubSeq(rest, 1, end[1])
                  after == SubSeq(rest, end[1] + 2, Len(rest)) IN
              IF ~starts_with(after, <<":">>) THEN None
              ELSE Some([key |-> key, offset |-> col_offset])
    ELSE LET colon == find(effective, ":") IN
         IF colon = None THEN None
         ELSE LET candidate == SubSeq(effective, 1, colon[1]) IN
              IF candidate = <<>> THEN None
              ELSE Some([key |-> trim(candidate), offset |-> col_offset])

\* Mutant of escape_pointer_segment: the segment is taken as it is.
escape_nothing(seg) == seg

\* '~' becomes "~0" and '/' becomes "~1".
RECURSIVE escape_pointer_segment(_)
escape_pointer_segment(seg) ==
    IF seg = <<>> THEN <<>>
    ELSE (IF seg[1] = "~" THEN <<"~", "0">>
          ELSE IF seg[1] = "/" THEN <<"~", "1">>
          ELSE <<seg[1]>>) \o escape_pointer_segment(Tail(seg))

\* The JSON pointer of the stack of (indent, key), per RFC 6901.
RECURSIVE build_json_pointer(_)
build_json_pointer(stack) ==
    IF stack = <<>> THEN <<>>
    ELSE build_json_pointer(SubSeq(stack, 1, Len(stack) - 1))
             \o <<"/">> \o escape_pointer_segment(stack[Len(stack)].key)

\* A variant of pop_deeper: a frame at the same indent stays on the stack.
RECURSIVE pop_strictly_deeper(_, _)
pop_strictly_deeper(stack, indent) ==
    IF stack # <<>> /\ stack[Len(stack)].lvl > indent
    THEN pop_strictly_deeper(SubSeq(stack, 1, Len(stack) - 1), indent)
    ELSE stack

\* while let Some(&(lvl, _)) = stack.last() { if lvl >= indent { stack.pop() } else { break } }
RECURSIVE pop_deeper(_, _)
pop_deeper(stack, indent) ==
    IF stack # <<>> /\ stack[Len(stack)].lvl >= indent
    THEN pop_deeper(SubSeq(stack, 1, Len(stack) - 1), indent)
    ELSE stack

\* HashMap::insert: a later entry for the same pointer replaces the earlier one.
NoSpans == [p \in {} |-> [line |-> 0, col |-> 0]]
spans_insert(spans, pointer, span) ==
    [p \in DOMAIN spans \cup {pointer} |-> IF p = pointer THEN span ELSE spans[p]]

\* The loop of parse_spec from line idx (0-based) on.
RECURSIVE parse_lines(_, _, _, _)
parse_lines(ls, idx, stack, spans) ==
    IF idx >= Len(ls) THEN spans
    ELSE LET line == ls[idx + 1]
             trimmed == trim(line)
             indent == leading_spaces(line)
             found == extract_yaml_key(trimmed) IN
         IF \/ trimmed = <<>>
            \/ starts_with(trimmed, <<"#">>)
            \/ starts_with(trimmed, <<"{">>)
            \/ starts_with(trimmed, <<"[">>)
            \/ found = None
         THEN parse_lines(ls, idx + 1, stack, spans)
         ELSE LET pushed == Append(pop_deeper(stack, indent),
                                   [lvl |-> indent, key |-> found[1].key]) IN
              parse_lines(ls, idx + 1, pushed,
                          spans_insert(spans, build_json_pointer(pushed),
                                       [line |-> idx + 1, col |-> indent + found[1].offset]))

\* parse_spec(raw): Ok(SpecIndex::new(spans, lines)).
parse_spec(raw) ==
    [spans |-> parse_lines(lines(raw), 0, <<>>, NoSpans), raw_lines |-> lines(raw)]

\* str::split(ch): the pieces between the occurrences of ch, empty ones too.
RECURSIVE split(_, _)
split(s, ch) ==
    LET at == find(s, ch) IN
    IF at = None THEN <<s>>
    ELSE <<SubSeq(s, 1, at[1])>> \o split(SubSeq(s, at[1] + 2, Len(s)), ch)

\* The while loop of normalize_to_pointer on what is left of one segment.
RECURSIVE normalize_rest(_, _)
normalize_rest(rest, pointer) ==
    IF rest = <<>> THEN pointer
    ELSE LET bracket_start == find(rest, "[") IN
         IF bracket_start = None
         THEN pointer \o <<"/">> \o escape_pointer_segment(rest)
         ELSE LET before == SubSeq(rest, 1, bracket_start[1])
                  with_before == IF before # <<>>
                                 THEN pointer \o <<"/">> \o escape_pointer_segment(before)
                                 ELSE pointer
                  closing == find(SubSeq(rest, bracket_start[1] + 1, Len(rest)), "]") IN
              IF closing = None
              THEN with_before \o <<"/">> \o escape_pointer_segment(rest)
              ELSE LET end == bracket_start[1] + closing[1]
                       index == SubSeq(rest, bracket_start[1] + 2, end) IN
                   normalize_rest(SubSeq(rest, end + 2, Len(rest)),
                                  with_before \o <<"/">> \o index)

RECURSIVE normalize_segments(_, _)
normalize_segments(segments, pointer) ==
    IF segments = <<>> THEN pointer
    ELSE normalize_segments(Tail(segments), normalize_rest(segments[1], pointer))

\* Mutant of normalize_to_pointer: a pointer is split on '.' like a dotted path.
normalize_dotted_only(path) ==
    IF path = <<>> THEN path ELSE normalize_segments(split(path, "."), <<>>)

\* Normalize a path (JSON pointer or dotted) to a JSON pointer.
normalize_to_pointer(path) ==
    IF starts_with(path, <<"/">>) \/ path = <<>> THEN path
    ELSE normalize_segments(split(path, "."), <<>>)

\* SpecIndex::resolve: self.spans.get(&pointer).copied()
resolve(index, path) ==
    LET pointer == normalize_to_pointer(path) IN
    IF pointer \in DOMAIN index.spans THEN Some(index.spans[pointer]) ELSE None

\* Mutant of context_window: the window ends one line early.
context_window_short(index, line, radius) ==
    IF line = 0 \/ line > Len(index.raw_lines) THEN None
    ELSE LET start == IF line - radius < 1 THEN 1 ELSE line - radius
             end == Min(line + radius - 1, Len(index.raw_lines)) IN
         Some([start_line |-> start, lines |-> SubSeq(index.raw_lines, start, end),
               target_line |-> line])

\* SpecIndex::context_window: line.saturating_sub(radius).max(1) to
\* (line + radius).min(len), as 1-based lines.
context_window(index, line, radius) ==
    IF line = 0 \/ line > Len(index.raw_lines) THEN None
    ELSE LET start == IF line - radius < 1 THEN 1 ELSE line - radius
             end == Min(line + radius, Len(index.raw_lines)) IN
         Some([start_line |-> start, lines |-> SubSeq(index.raw_lines, start, end),
               target_line |-> line])

\* Lines of a spec file: keys at two depths, a quoted empty key, keys with
\* '~', '/', '.' and '[', an array item, a comment.
SourceLines ==
    {<<"i", "n", "f", "o", ":">>, <<SP, SP, "a", ":">>, <<"a", ":">>, <<"\"", "\"", ":">>, <<SP, "~", "/", ":">>, <<"a", ".", "b", ":">>, <<"a", "[", ":">>,
     <<"-", SP, "a", ":", SP, "x">>, <<"#", SP, "c">>}
\* The file whose lines are ls, every line ended by a line feed.
RECURSIVE FileOf(_)
FileOf(ls) == IF ls = <<>> THEN <<>> ELSE ls[1] \o <<LF>> \o FileOf(Tail(ls))
SourceFiles == {FileOf(ls) : ls \in SeqsUpTo(SourceLines, MaxSourceLines)}

\* Keys of the paths resolved: plain, empty, and with each character the
\* pointer syntax or the dotted syntax gives a meaning to.
Keys == {<<"a">>, <<"i", "n", "f", "o">>, <<>>, <<"~", "/">>, <<"a", ".", "b">>, <<"a", "[">>, <<"/", "a">>}
KeyPaths == {ks \in SeqsUpTo(Keys, MaxKeys) : ks # <<>>}
\* k1.k2...kn and /k1/.../kn with '~' and '/' escaped in each key.
DottedForm(ks) == join(ks, ".")
RECURSIVE Escaped(_)
Escaped(key) ==
    IF key = <<>> THEN <<>>
    ELSE IF key[1] = "~" THEN <<"~", "0">> \o Escaped(Tail(key))
    ELSE IF key[1] = "/" THEN <<"~", "1">> \o Escaped(Tail(key))
    ELSE <<key[1]>> \o Escaped(Tail(key))
RECURSIVE PointerForm(_)
PointerForm(ks) ==
    IF ks = <<>> THEN <<>> ELSE <<"/">> \o Escaped(ks[1]) \o PointerForm(Tail(ks))

MaxBuilds == 3          \* indexes built in one session

\* Mutant of NextVersion: an index built after another takes its version.
NextVersionSame == IF app.builds = <<>> THEN 1 ELSE app.builds[Len(app.builds)]

\* The version of the next index built: one more than the last one's.
NextVersion == IF app.builds = <<>> THEN 1 ELSE app.builds[Len(app.builds)] + 1
Versioned(index, version) ==
    [spans |-> index.spans, raw_lines |-> index.raw_lines, version |-> version]

\* if let Ok(raw) = read_to_string(path) && let Ok(index) = parse_spec(&raw)
\* { app.spec_index = Some(index) }, on a file that reads as raw.
Reparse(raw) ==
    [app EXCEPT !.spec_index = Some(Versioned(parse_spec(raw), NextVersion)),
                !.builds = Append(@, NextVersion)]

IndexInit ==
    /\ PipelineIdle
    /\ twin = NoTwin
    /\ disk \in SourceFiles
    /\ edit = NoEdit
    /\ app = NoApp
    /\ ask = NoAsk
    /\ tui = NoTui

TheIndex == app.spec_index[1]

\* Startup: the spec is discovered, read and parsed.
LoadSpec ==
    /\ app.spec_index = None
    /\ app.builds = <<>>
    /\ app' = Reparse(disk)
    /\ PipelineUnchanged
    /\ UNCHANGED <<twin, disk, edit, ask, tui>>

\* The index is asked to resolve a path.
Resolve(path) ==
    /\ app.spec_index # None
    /\ ask' = [op |-> "resolve", arg |-> path,
               answer |-> [pointer |-> normalize_to_pointer(path),
                           span |-> resolve(TheIndex, path)]]
    /\ PipelineUnchanged
    /\ UNCHANGED <<twin, disk, edit, app, tui>>

\* The index is asked for one key path in its dotted and in its pointer form.
ResolveKeys(ks) ==
    /\ app.spec_index # None
    /\ ask' = [op |-> "resolve_keys", arg |-> ks,
               answer |-> [dotted |-> resolve(TheIndex, DottedForm(ks)),
                           pointer |-> resolve(TheIndex, PointerForm(ks))]]
    /\ PipelineUnchanged
    /\ UNCHANGED <<twin, disk, edit, app, tui>>

\* The spec context panel asks for the window around a line.
ContextWindow(line, radius) ==
    /\ app.spec_index # None
    /\ ask' = [op |-> "context_window", arg |-> <<line, radius>>,
               answer |-> context_window(TheIndex, line, radius)]
    /\ PipelineUnchanged
    /\ UNCHANGED <<twin, disk, edit, app, tui>>

IndexNext ==
    \/ LoadSpec
    \/ /\ app.spec_index # None
       /\ ask = NoAsk
       /\ \/ \E p \in DOMAIN TheIndex.spans : Resolve(p)
          \/ \E ks \in KeyPaths : Resolve(DottedForm(ks)) \/ Resolve(PointerForm(ks))
          \/ \E ks \in KeyPaths : ResolveKeys(ks)
          \/ \E line \in 0..(MaxSourceLines + 1), radius \in 0..MaxRadius :
                 ContextWindow(line, radius)

IndexSpec == IndexInit /\ [][IndexNext]_vars

\* C27: every pointer the indexer recorded resolves to the (line, col)
\* recorded for it, also when its keys contain '~', '/', '.' or '['.
C27_RecordedResolves ==
    (ask.op = "resolve" /\ ask.arg \in DOMAIN TheIndex.spans) =>
        ask.answer.span = Some(TheIndex.spans[ask.arg])

\* Recorded pointers whose keys hold '~' and '/', '.', '['.
SpecialKeysRecorded ==
    {<<"/", "~", "0", "~", "1">>, <<"/", "a", ".", "b">>, <<"/", "a", "[">>}

C27_Witness ==
    /\ ask.op = "resolve"
    /\ ask.arg \in SpecialKeysRecorded
    /\ ask.arg \in DOMAIN TheIndex.spans
    /\ ask.answer.span = Some(TheIndex.spans[ask.arg])
    /\ Cardinality(DOMAIN TheIndex.spans) = 2

PlainKeys(ks) ==
    /\ \A k \in DOMAIN ks : find(ks[k], ".") = None /\ find(ks[k], "[") = None
    /\ ~starts_with(ks[1], <<"/">>)

\* C28: for keys without '.' and '[' and a first key not starting with '/',
\* the dotted form and the escaped pointer form resolve to the same span;
\* and a string that starts with '/' is normalized to itself.
C28_DottedAsPointer ==
    /\ (ask.op = "resolve_keys" /\ PlainKeys(ask.arg)) =>
           ask.answer.dotted = ask.answer.pointer
    /\ (ask.op = "resolve" /\ starts_with(ask.arg, <<"/">>)) =>
           ask.answer.pointer = ask.arg

\* C28, as the code has it: the same, for keys that are not empty.
C28_DottedAsPointerNonEmpty ==
    /\ (ask.op = "resolve_keys" /\ PlainKeys(ask.arg)
           /\ \A k \in DOMAIN ask.arg : ask.arg[k] # <<>>) =>
           ask.answer.dotted = ask.answer.pointer
    /\ (ask.op = "resolve" /\ starts_with(ask.arg, <<"/">>)) =>
           ask.answer.pointer = ask.arg

C28_Witness ==
    /\ ask.op = "resolve_keys"
    /\ ask.arg = <<<<"a">>, <<"~", "/">>>>
    /\ ask.answer.dotted # None
    /\ ask.answer.dotted = ask.answer.pointer

\* C30: context_window(line, radius) on an index of N lines is nothing for
\* line 0 and line > N; otherwise it starts at max(1, line - radius), has
\* target_line = line and holds the lines up to min(N, line + radius), the
\* target line among them.
C30_ContextWindow ==
    ask.op = "context_window" =>
        LET line == ask.arg[1]
            radius == ask.arg[2]
            N == Len(TheIndex.raw_lines) IN
        IF line = 0 \/ line > N THEN ask.answer = None
        ELSE /\ ask.answer # None
             /\ LET w == ask.answer[1]
                     first == IF line - radius >= 1 THEN line - radius ELSE 1
                     last == IF line + radius <= N THEN line + radius ELSE N IN
                 /\ w.start_line = first
                 /\ w.target_line = line
                 /\ Len(w.lines) = last - first + 1
                 /\ \A k \in 1..Len(w.lines) : w.lines[k] = TheIndex.raw_lines[first + k - 1]
                 /\ w.start_line <= w.target_line
                 /\ w.target_line <= w.start_line + Len(w.lines) - 1

C30_Witness ==
    /\ ask.op = "context_window"
    /\ ask.arg = <<2, 2>>
    /\ Len(TheIndex.raw_lines) = 2
    /\ ask.answer # None
    /\ ask.answer[1].start_line = 1
    /\ Len(ask.answer[1].lines) = 2

\* ------------------------------------------------------------- the fix rules
MaxSessionLines == 2    \* lines of the longest spec file of a session

saturating_sub(a, b) == IF a >= b THEN a - b ELSE 0

\* The whitespace a line starts with (char::is_ascii_whitespace).
RECURSIVE leading_whitespace(_)
leading_whitespace(line) ==
    IF line # <<>> /\ line[1] \in Whitespace
    THEN <<line[1]>> \o leading_whitespace(Tail(line))
    ELSE <<>>

\* trimmed.is_empty() || trimmed.starts_with('#')
blank_or_comment(line) == trim(line) = <<>> \/ starts_with(trim(line), <<"#">>)

\* lines[parent_idx] of detect_child_indent and last_child_line is out of
\* bounds: the thread panics.
parent_out_of_bounds(ls, parent_line) == saturating_sub(parent_line, 1) >= Len(ls)

\* A variant of child_indent_from: a line that is not deeper than the parent
\* is passed over, and the search goes on below it.
RECURSIVE child_indent_anywhere(_, _, _)
child_indent_anywhere(ls, k, parent_indent) ==
    IF k >= Len(ls) THEN parent_indent \o <<SP, SP>>
    ELSE IF blank_or_comment(ls[k + 1]) THEN child_indent_anywhere(ls, k + 1, parent_indent)
    ELSE IF Len(leading_whitespace(ls[k + 1])) > Len(parent_indent)
         THEN leading_whitespace(ls[k + 1])
         ELSE child_indent_anywhere(ls, k + 1, parent_indent)

\* The for loop of detect_child_indent from line k (0-based) on.
RECURSIVE child_indent_from(_, _, _)
child_indent_from(ls, k, parent_indent) ==
    IF k >= Len(ls) THEN parent_indent \o <<SP, SP>>
    ELSE IF blank_or_comment(ls[k + 1]) THEN child_indent_from(ls, k + 1, parent_indent)
    ELSE IF Len(leading_whitespace(ls[k + 1])) > Len(parent_indent)
         THEN leading_whitespace(ls[k + 1])
         ELSE parent_indent \o <<SP, SP>>

\* detect_child_indent, for a parent line inside the file.
detect_child_indent(ls, parent_line) ==
    LET parent_idx == saturating_sub(parent_line, 1) IN
    child_indent_from(ls, parent_idx + 1, leading_whitespace(ls[parent_idx + 1]))

strip_prefix(s, p) == IF starts_with(s, p) THEN Some(SubSeq(s, Len(p) + 1, Len(s))) ELSE None

\* The for loop of find_child_field_value from line k (0-based) on.
RECURSIVE child_field_from(_, _, _, _)
child_field_from(ls, k, child_indent, field_name) ==
    IF k >= Len(ls) THEN None
    ELSE IF blank_or_comment(ls[k + 1])
         THEN child_field_from(ls, k + 1, child_indent, field_name)
    ELSE LET indent == leading_whitespace(ls[k + 1])
             rest == strip_prefix(trim(ls[k + 1]), field_name \o <<":">>) IN
         IF Len(indent) < Len(child_indent) THEN None
         ELSE IF Len(indent) = Len(child_indent) /\ rest # None THEN Some(trim(rest[1]))
         ELSE child_field_from(ls, k + 1, child_indent, field_name)

find_child_field_value(ls, parent_line, child_indent, field_name) ==
    child_field_from(ls, parent_line, child_indent, field_name)

\* The for loop of last_child_line from line k (0-based) on.
RECURSIVE last_child_from(_, _, _, _)
last_child_from(ls, k, parent_indent_len, last) ==
    IF k >= Len(ls) THEN last
    ELSE IF blank_or_comment(ls[k + 1])
         THEN last_child_from(ls, k + 1, parent_indent_len, last)
    ELSE IF Len(leading_whitespace(ls[k + 1])) <= parent_indent_len THEN last
    ELSE last_child_from(ls, k + 1, parent_indent_len, k + 1)

\* last_child_line, for a parent line inside the file.
last_child_line(ls, parent_line) ==
    LET parent_idx == saturating_sub(parent_line, 1) IN
    last_child_from(ls, parent_idx + 1, Len(leading_whitespace(ls[parent_idx + 1])),
                    parent_line)

\* Some((op_line, op_id)) for a finding whose json_path resolves to a line of
\* the file.
resolve_operation_context(error, index, ls) ==
    LET context(op_line, found) ==
            Some([op_line |-> op_line,
                  op_id |-> IF found # None THEN found[1]
                            ELSE trim_end_matches(trim(ls[op_line]), {":"})])
        at_line(op_line) ==
            IF op_line = 0 \/ op_line > Len(ls) THEN None
            ELSE context(op_line,
                         find_child_field_value(ls, op_line, detect_child_indent(ls, op_line),
                                                <<"o", "p", "e", "r", "a", "t", "i", "o", "n", "I", "d">>))
        at_span(span) == IF span = None THEN None ELSE at_line(span[1].line) IN
    IF error.json_path = None THEN None
    ELSE at_span(resolve(index, error.json_path[1]))

\* lines[start..idx.min(len)] of gather_context has start past its end: the
\* thread panics.
context_out_of_bounds(ls, target_line, radius) ==
    saturating_sub(saturating_sub(target_line, 1), radius)
        > Min(saturating_sub(target_line, 1), Len(ls))

\* gather_context: (before, after) around target_line.
gather_context(ls, target_line, radius) ==
    LET idx == saturating_sub(target_line, 1)
        start == saturating_sub(idx, radius)
        after_start == Min(idx, Len(ls))
        after_end == Min(idx + radius, Len(ls)) IN
    <<SubSeq(ls, start + 1, Min(idx, Len(ls))), SubSeq(ls, after_start + 1, after_end)>>

NoProposal == [kind |-> "none"]
Panic == [kind |-> "panic"]
FixProposal(rule, target_line, inserted, context) ==
    [kind |-> "some", rule |-> rule, target_line |-> target_line,
     context_before |-> context[1], inserted |-> inserted, context_after |-> context[2]]

\* propose_operation_summary and propose_operation_description: one line
\* `<indent><field>: "<op_id> <field>"` after the operation's line.
propose_operation_field(error, index, ls, field) ==
    LET proposal(op_line, op_id) ==
            IF parent_out_of_bounds(ls, op_line) THEN Panic
            ELSE IF context_out_of_bounds(ls, op_line + 1, 3) THEN Panic
            ELSE FixProposal(error.rule, op_line,
                             <<detect_child_indent(ls, op_line) \o field \o <<":", SP, "\"">>
                                   \o op_id \o <<SP>> \o field \o <<"\"">>>>,
                             gather_context(ls, op_line + 1, 3))
        with(ctx) == IF ctx = None THEN NoProposal
                     ELSE proposal(ctx[1].op_line, ctx[1].op_id) IN
    with(resolve_operation_context(error, index, ls))

propose_operation_summary(error, index, ls) ==
    propose_operation_field(error, index, ls, <<"s", "u", "m", "m", "a", "r", "y">>)
propose_operation_description(error, index, ls) ==
    propose_operation_field(error, index, ls, <<"d", "e", "s", "c", "r", "i", "p", "t", "i", "o", "n">>)

\* propose_info_contact and propose_info_license: a block under /info, after
\* the last child of the info line.
propose_info_block(error, index, ls, block) ==
    LET proposal(child_indent, target) ==
            IF context_out_of_bounds(ls, target + 1, 3) THEN Panic
            ELSE FixProposal(error.rule, target,
                             [k \in DOMAIN block |->
                                 child_indent \o (IF k = 1 THEN <<>> ELSE <<SP, SP>>) \o block[k]],
                             gather_context(ls, target + 1, 3))
        at_line(info_line) ==
            IF parent_out_of_bounds(ls, info_line) THEN Panic
            ELSE proposal(detect_child_indent(ls, info_line), last_child_line(ls, info_line))
        at_span(span) == IF span = None THEN NoProposal ELSE at_line(span[1].line) IN
    at_span(resolve(index, <<"/", "i", "n", "f", "o">>))

propose_info_contact(error, index, ls) ==
    propose_info_block(error, index, ls, <<<<"c", "o", "n", "t", "a", "c", "t", ":">>, <<"n", "a", "m", "e", ":", SP, "\"", "\"">>, <<"u", "r", "l", ":", SP, "\"", "\"">>>>)
propose_info_license(error, index, ls) ==
    propose_info_block(error, index, ls, <<<<"l", "i", "c", "e", "n", "s", "e", ":">>, <<"n", "a", "m", "e", ":", SP, "\"", "\"">>>>)

OperationRules == {"operation-summary", "operation-description"}
InfoRules == {"info-contact", "info-license"}
\* The closed rule set, and one rule outside it.
Rules == OperationRules \cup InfoRules \cup {"no-unused-components"}

\* propose_fix(error, spec_index, spec_path) on a file that reads as raw.
propose_fix(error, index, raw) ==
    LET rule(ls) ==
            IF error.rule = "operation-summary"
            THEN propose_operation_summary(error, index, ls)
            ELSE IF error.rule = "operation-description"
                 THEN propose_operation_description(error, index, ls)
            ELSE IF error.rule = "info-contact" THEN propose_info_contact(error, index, ls)
            ELSE IF error.rule = "info-license" THEN propose_info_license(error, index, ls)
            ELSE NoProposal IN
    rule(lines(raw))

\* --------------------------------------------------- a session on one file
SessionLines == {<<"i", "n", "f", "o", ":">>, <<SP, SP, "a", ":">>, <<SP, SP, "o", "p", "e", "r", "a", "t", "i", "o", "n", "I", "d", ":", SP, "a">>}
SessionFiles == {FileOf(ls) : ls \in SeqsUpTo(SessionLines, MaxSessionLines)}
JsonPaths == {None, Some(<<"/", "i", "n", "f", "o">>), Some(<<"/", "i", "n", "f", "o", "/", "a">>), Some(<<"/", "x">>)}
LintErrors == {[rule |-> r, json_path |-> p] : r \in Rules, p \in JsonPaths}

SessionInit ==
    /\ PipelineIdle
    /\ twin = NoTwin
    /\ disk \in SessionFiles
    /\ edit = NoEdit
    /\ app = NoApp
    /\ ask = NoAsk
    /\ tui = NoTui

\* The process is gone: a rule panicked on the main thread.
Crashed == ask.op = "propose" /\ ask.answer.kind = "panic"

\* 'f' on a finding: propose_fix with the index the app holds and the file as
\* it is now; a proposal opens the fix overlay.
ProposeFix(error) ==
    /\ ~Crashed
    /\ app.spec_index # None
    /\ app.fix_proposal = None
    /\ LET shown(p) ==
            /\ ask' = [op |-> "propose", arg |-> error, answer |-> p]
            /\ app' = [app EXCEPT !.fix_proposal = IF p.kind = "some" THEN Some(p) ELSE None]
       IN shown(propose_fix(error, TheIndex, disk))
    /\ PipelineUnchanged
    /\ UNCHANGED <<twin, disk, edit, tui>>

\* 'y' in the fix overlay: apply_fix, and after Ok the spec is parsed again.
\* One fix is accepted in a session.
AcceptFix ==
    /\ ~Crashed
    /\ edit.state = "none"
    /\ app.fix_proposal # None
    /\ Len(app.builds) < MaxBuilds
    /\ LET applied(p, r) ==
            /\ disk' = r.output
            /\ edit' = [state |-> IF r.ok THEN "ok" ELSE "err", before |-> disk,
                        target_line |-> p.target_line, inserted |-> p.inserted]
            /\ app' = IF r.ok THEN [Reparse(r.output) EXCEPT !.fix_proposal = None]
                      ELSE [app EXCEPT !.fix_proposal = None]
       IN applied(app.fix_proposal[1],
                  apply_fix(disk, app.fix_proposal[1].target_line,
                            app.fix_proposal[1].inserted))
    /\ ask' = NoAsk
    /\ PipelineUnchanged
    /\ UNCHANGED <<twin, tui>>

\* 'n', Esc or 'q' in the fix overlay.
DismissFix ==
    /\ ~Crashed
    /\ app.fix_proposal # None
    /\ app' = [app EXCEPT !.fix_proposal = None]
    /\ ask' = NoAsk
    /\ PipelineUnchanged
    /\ UNCHANGED <<twin, disk, edit, tui>>

\* The editor was run on the spec and left the file reading as raw; the spec
\* is read and parsed again.
EditorSession(raw) ==
    /\ ~Crashed
    /\ app.spec_index # None
    /\ app.fix_proposal = None
    /\ Len(app.builds) < MaxBuilds
    /\ disk' = raw
    /\ app' = Reparse(raw)
    /\ ask' = NoAsk
    /\ PipelineUnchanged
    /\ UNCHANGED <<twin, edit, tui>>

\* Another program writes the spec file; the app is not told.
ExternalEdit(raw) ==
    /\ ~Crashed
    /\ app.spec_index # None
    /\ disk # raw
    /\ disk' = raw
    /\ ask' = NoAsk
    /\ PipelineUnchanged
    /\ UNCHANGED <<twin, edit, app, tui>>

SessionNext ==
    \/ LoadSpec
    \/ \E error \in LintErrors : ProposeFix(error)
    \/ AcceptFix
    \/ DismissFix
    \/ \E raw \in SessionFiles : EditorSession(raw)

SessionSpec == SessionInit /\ [][SessionNext]_vars

\* A session in which other programs write the file and the spec is not
\* parsed again: the index stays the one built at startup.
StaleNext ==
    \/ LoadSpec
    \/ \E error \in LintErrors : ProposeFix(error)
    \/ DismissFix
    \/ \E raw \in SessionFiles : ExternalEdit(raw)

StaleSpec == SessionInit /\ [][StaleNext]_vars

\* The pointer a rule resolves for a finding, and the span the index gives it.
PointerOf(error) == IF error.rule \in InfoRules THEN Some(<<"/", "i", "n", "f", "o">>) ELSE error.json_path
SpanOf(error) == IF PointerOf(error) = None THEN None ELSE resolve(TheIndex, PointerOf(error)[1])

\* C26: for each of the four rules, proposing a fix gives 'no proposal', and
\* no crash, when the finding has no json_path (operation rules), when the
\* pointer does not resolve, or when the line it resolves to lies beyond the
\* end of the file's current lines.
C26_NoProposalNoCrash ==
    (ask.op = "propose" /\ ask.arg.rule \in OperationRules \cup InfoRules) =>
        ((\/ PointerOf(ask.arg) = None
          \/ SpanOf(ask.arg) = None
          \/ SpanOf(ask.arg)[1].line > Len(lines(disk)))
            => ask.answer.kind = "none")

Strictly(v) == \A i, j \in DOMAIN v : i < j => v[i] < v[j]

MaxLogLines == 2     \* lines of the longest lint log
MaxRest == 2         \* tokens after the rule id of an entry
MaxTokenLen == 3     \* characters of the longest trailing token

\* The two characters a summary line starts with, each one character.
HeavyX == "U+2716"
Times == "U+00D7"
DigitChars == {"0", "1", "2", "3", "4", "5", "6", "7", "8", "9"}

Min_of(S) == CHOOSE k \in S : \A h \in S : k <= h

\* The tokens after the first, each after two spaces.
RECURSIVE LogText_rest(_)
LogText_rest(tokens) ==
    IF tokens = <<>> THEN <<>>
    ELSE <<SP, SP>> \o tokens[1] \o LogText_rest(Tail(tokens))

\* str::split_whitespace: the non-empty pieces between runs of whitespace.
RECURSIVE split_whitespace(_)
split_whitespace(s) ==
    LET piece(t, stops) ==
            IF t = <<>> THEN <<>>
            ELSE IF stops = {} THEN <<t>>
            ELSE <<SubSeq(t, 1, Min_of(stops) - 1)>>
                     \o split_whitespace(SubSeq(t, Min_of(stops), Len(t)))
        from(t) == piece(t, {k \in DOMAIN t : t[k] \in Whitespace}) IN
    from(trim_start_matches(s, Whitespace))

RECURSIVE digits_value(_, _)
digits_value(s, acc) ==
    IF s = <<>> THEN acc
    ELSE digits_value(Tail(s), acc * 10 + (CHOOSE v \in 0..9 : ToString(v) = s[1]))

\* str::parse::<usize>: decimal digits after an optional '+'; Err for the
\* empty string, a lone sign and any other character. A value past
\* usize::MAX is Err as well, which takes 20 digits.
parse_usize(s) ==
    LET unsigned(digits) ==
            IF digits = <<>> \/ \E k \in DOMAIN digits : digits[k] \notin DigitChars
            THEN None
            ELSE Some(digits_value(digits, 0)) IN
    unsigned(IF s # <<>> /\ s[1] = "+" THEN Tail(s) ELSE s)

\* parse_location: "line:col" split at the first ':'.
parse_location(s) ==
    LET pair(l, c) == IF l = None \/ c = None THEN None ELSE Some(<<l[1], c[1]>>)
        split_once(at) ==
            IF at = None THEN None
            ELSE pair(parse_usize(SubSeq(s, 1, at[1])),
                      parse_usize(SubSeq(s, at[1] + 2, Len(s)))) IN
    split_once(find(s, ":"))

\* str::to_ascii_lowercase, for the letters of the severity names.
to_ascii_lowercase(s) ==
    LET smalls == <<"e", "r", "r", "o", "r">> \o <<"w", "a", "r", "n", "i", "n", "g">> \o <<"h", "i", "n", "t">> \o <<"f", "m">>
        capitals == <<"E", "R", "R", "O", "R">> \o <<"W", "A", "R", "N", "I", "N", "G">> \o <<"H", "I", "N", "T">> \o <<"F", "M">> IN
    [k \in DOMAIN s |->
        IF \E j \in DOMAIN capitals : capitals[j] = s[k]
        THEN smalls[CHOOSE j \in DOMAIN capitals : capitals[j] = s[k]]
        ELSE s[k]]

\* Severity::from_str_lossy
from_str_lossy(s) ==
    LET name(l) ==
            IF l = <<"e", "r", "r", "o", "r">> THEN "Error"
            ELSE IF l = <<"w", "a", "r", "n", "i", "n", "g">> THEN "Warning"
            ELSE IF l = <<"i", "n", "f", "o">> \/ l = <<"i", "n", "f", "o", "r", "m", "a", "t", "i", "o", "n">> THEN "Info"
            ELSE IF l = <<"h", "i", "n", "t">> THEN "Hint"
            ELSE "Warning" IN
    name(to_ascii_lowercase(s))

\* A variant whose third trigger is two '.' anywhere in the token.
looks_like_json_path_two_dots(token) ==
    /\ token # <<>>
    /\ \/ starts_with(token, <<"/">>)
       \/ find(token, "[") # None
       \/ Cardinality({k \in DOMAIN token : token[k] = "."}) >= 2

looks_like_json_path(token) ==
    /\ token # <<>>
    /\ \/ starts_with(token, <<"/">>)
       \/ find(token, "[") # None
       \/ /\ find(token, ".") # None
          /\ find(trim_end_matches(token, {"."}), ".") # None

split_message_and_path(tokens) ==
    IF Len(tokens) > 1 /\ looks_like_json_path(tokens[Len(tokens)])
    THEN [message |-> join(SubSeq(tokens, 1, Len(tokens) - 1), SP),
          json_path |-> Some(tokens[Len(tokens)])]
    ELSE [message |-> join(tokens, SP), json_path |-> None]

\* parse_entry: Some(finding), or None when a `?` returns early.
parse_entry(trimmed) ==
    LET finding(tokens, loc, text) ==
            Some([line |-> loc[1][1], col |-> loc[1][2],
                  severity |-> from_str_lossy(tokens[2]), rule |-> tokens[3],
                  message |-> text.message, json_path |-> text.json_path])
        entry(tokens) ==
            IF Len(tokens) < 3 THEN None
            ELSE IF parse_location(tokens[1]) = None THEN None
            ELSE IF Len(tokens) = 3
                 THEN finding(tokens, parse_location(tokens[1]),
                              [message |-> <<>>, json_path |-> None])
            ELSE finding(tokens, parse_location(tokens[1]),
                         split_message_and_path(SubSeq(tokens, 4, Len(tokens)))) IN
    entry(split_whitespace(trimmed))

\* One pass of the for loop of parse_lint_log: what the line adds to errors.
parse_log_line(line) ==
    IF trim(line) = <<>> THEN <<>>
    ELSE IF ~starts_with(line, <<SP>>) /\ ~starts_with(line, <<TAB>>) THEN <<>>
    ELSE IF starts_with(trim_start_matches(line, Whitespace), <<HeavyX>>)
            \/ starts_with(trim_start_matches(line, Whitespace), <<Times>>) THEN <<>>
    ELSE parse_entry(trim_start_matches(line, Whitespace))

RECURSIVE parse_log_lines(_)
parse_log_lines(ls) ==
    IF ls = <<>> THEN <<>> ELSE parse_log_line(ls[1]) \o parse_log_lines(Tail(ls))

\* A variant that takes file headers for entries.
parse_lint_log_unindented(raw) ==
    LET RECURSIVE every(_)
        every(ls) == IF ls = <<>> THEN <<>>
                     ELSE parse_entry(trim_start_matches(ls[1], Whitespace)) \o every(Tail(ls)) IN
    every(lines(raw))

parse_lint_log(raw) == parse_log_lines(lines(raw))

\* ---------------------------------------------------------------- lint logs
\* A log is written down as its lines, each an indent and the tokens after it.
EntryHead == <<<<"1", ":", "2">>, <<"e">>, <<"r">>>>
LogIndents == {<<>>, <<SP>>, <<TAB>>}
LogTokenLists ==
    {<<>>, <<<<"/", "s">>>>, <<<<HeavyX>>, <<"1">>>>, <<<<Times, "1">>, <<"e">>, <<"r">>>>,
     <<<<"1", ":", "2">>, <<"e", "r", "r", "o", "r">>, <<"r">>>>, <<<<"1", "2", ":", "1">>, <<"H", "i", "n", "t">>, <<"q">>, <<"m">>>>,
     <<<<"0", ":", "1">>, <<"e", "r", "r", "o", "r">>, <<"z">>>>, <<<<"+", "1", ":", "2">>, <<"e">>, <<"p">>>>,
     <<<<"1", ":">>, <<"e">>, <<"r">>>>, <<<<"a", ":", "1">>, <<"e">>, <<"r">>>>, <<<<"1", ":", "2", ":", "1">>, <<"e">>, <<"r">>>>, <<<<"-", "1", ":", "1">>, <<"e">>, <<"r">>>>,
     <<<<"1", ":", "2">>, <<"e", "r", "r", "o", "r">>>>}
LogLineForms == {[indent |-> i, tokens |-> t] : i \in LogIndents, t \in LogTokenLists}
PathChars == {"/", "[", ".", "a"}
PathTokens == UNION {[1..k -> PathChars] : k \in 1..MaxTokenLen}
RestForms == {[indent |-> <<SP>>, tokens |-> EntryHead \o r] :
                  r \in SeqsUpTo(PathTokens, MaxRest) \ {<<>>}}
LintLogs == SeqsUpTo(LogLineForms, MaxLogLines) \cup {<<l>> : l \in RestForms}

\* The text of a log: each line is its indent, its tokens with two spaces
\* between them, and a line feed.
RECURSIVE LogText(_)
LogText(log) ==
    IF log = <<>> THEN <<>>
    ELSE log[1].indent
         \o (IF log[1].tokens = <<>> THEN <<>>
             ELSE log[1].tokens[1]
                  \o LogText_rest(Tail(log[1].tokens)))
         \o <<LF>> \o LogText(Tail(log))

ParseInit == PipelineIdle /\ SpecIdle

\* The lint phase's log is parsed into findings.
ParseLintLog(log) ==
    /\ ask = NoAsk
    /\ ask' = [op |-> "parse", arg |-> log, answer |-> parse_lint_log(LogText(log))]
    /\ PipelineUnchanged
    /\ UNCHANGED <<twin, disk, edit, app, tui>>

ParseNext == \E log \in LintLogs : ParseLintLog(log)

ParseSpec == ParseInit /\ [][ParseNext]_vars

\* ------------------------------------------------------------------ C31, C32
Parsed == ask.op = "parse"
IsDigitString(s) == s # <<>> /\ \A k \in DOMAIN s : s[k] \in DigitChars
PositiveNumber(s) == IsDigitString(s) /\ \E k \in DOMAIN s : s[k] # "0"
UnsignedNumber(s) == IsDigitString(IF s # <<>> /\ s[1] = "+" THEN Tail(s) ELSE s)
LocationOf(tok, positive) ==
    LET Number(s) == IF positive THEN PositiveNumber(s) ELSE UnsignedNumber(s) IN
    \E k \in DOMAIN tok : /\ tok[k] = ":"
                          /\ Number(SubSeq(tok, 1, k - 1))
                          /\ Number(SubSeq(tok, k + 1, Len(tok)))
\* An indented, non-blank line that is no summary line and has a location, a
\* severity and a rule id.
EntryLine(l, positive) ==
    /\ l.indent # <<>>
    /\ l.tokens # <<>>
    /\ l.tokens[1][1] \notin {HeavyX, Times}
    /\ Len(l.tokens) >= 3
    /\ LocationOf(l.tokens[1], positive)
RECURSIVE ExpectedRules(_, _)
ExpectedRules(log, positive) ==
    IF log = <<>> THEN <<>>
    ELSE (IF EntryLine(log[1], positive) THEN <<log[1].tokens[3]>> ELSE <<>>)
         \o ExpectedRules(Tail(log), positive)
FoundRules == [k \in DOMAIN ask.answer |-> ask.answer[k].rule]

\* C31 as stated: parse_lint_log returns one finding per indented, non-blank,
\* non-summary line whose location is line:col with positive integers
\* followed by a severity and a rule id, in source order, and nothing else.
C31_OneFindingPerEntry == Parsed => FoundRules = ExpectedRules(ask.arg, TRUE)

\* C31 amended: the same with line and col unsigned integers: decimal digits
\* after an optional '+', zero included.
C31_OneFindingPerUnsignedEntry == Parsed => FoundRules = ExpectedRules(ask.arg, FALSE)

\* A log of two lines of which one is skipped and the other is an entry at
\* line 0.
C31_Witness ==
    /\ Parsed
    /\ Len(ask.arg) = 2
    /\ Len(ask.answer) = 1
    /\ ask.answer[1].line = 0

\* One entry line with a remainder after the rule id.
HasRest ==
    /\ Parsed
    /\ Len(ask.arg) = 1
    /\ Len(ask.answer) = 1
    /\ Len(ask.arg[1].tokens) > 3
Rest == SubSeq(ask.arg[1].tokens, 4, Len(ask.arg[1].tokens))
Last == Rest[Len(Rest)]
RECURSIVE Words(_)
Words(tokens) ==
    IF tokens = <<>> THEN <<>>
    ELSE IF Len(tokens) = 1 THEN tokens[1]
    ELSE tokens[1] \o <<SP>> \o Words(Tail(tokens))
Reclassified ==
    /\ ask.answer[1].json_path = <<Last>>
    /\ ask.answer[1].message = Words(SubSeq(Rest, 1, Len(Rest) - 1))
KeptInMessage ==
    /\ ask.answer[1].json_path = <<>>
    /\ ask.answer[1].message = Words(Rest)

\* C32 as stated: the trailing token of the remainder is the json_path iff it
\* starts with '/', contains '[' or contains at least two '.'; otherwise it
\* stays in the message and json_path is absent.
C32_TrailingTokenIsPath ==
    HasRest =>
        IF \/ Last[1] = "/"
           \/ \E k \in DOMAIN Last : Last[k] = "["
           \/ Cardinality({k \in DOMAIN Last : Last[k] = "."}) >= 2
        THEN Reclassified ELSE KeptInMessage

\* C32 amended: when the remainder has more than one token, the trailing
\* token is the json_path iff it starts with '/', contains '[' or contains a
\* '.' with a character other than '.' somewhere after it; otherwise, and for
\* a remainder of one token, it stays in the message and json_path is absent.
C32_TrailingTokenIsPathAfterMessage ==
    HasRest =>
        IF /\ Len(Rest) > 1
           /\ \/ Last[1] = "/"
              \/ \E k \in DOMAIN Last : Last[k] = "["
              \/ \E j, k \in DOMAIN Last : j < k /\ Last[j] = "." /\ Last[k] # "."
        THEN Reclassified ELSE KeptInMessage

\* A trailing token with one '.' inside it became the json_path.
C32_Witness ==
    /\ HasRest
    /\ Len(Rest) = 2
    /\ Cardinality({k \in DOMAIN Last : Last[k] = "."}) = 1
    /\ ask.answer[1].json_path = <<Last>>

\* --------------------------------------------------- the app and its runs
MaxRuns == 4    \* runs one session starts

\* A run: its CancelToken's flag and whether its thread still runs.
NewRun == [cancelled |-> FALSE, state |-> "running"]

\* token.cancel() on the token the app holds, if it holds one.
CancelHeld(t) ==
    IF t.cancel_token = None THEN t
    ELSE [t EXCEPT !.runs[t.cancel_token[1]].cancelled = TRUE]

\* A variant that starts the new run and leaves the old one alone.
StartPipelineNoCancel(ok) ==
    /\ Len(tui.runs) < MaxRuns
    /\ tui' = IF ~ok THEN tui
              ELSE [cancel_token |-> Some(Len(tui.runs) + 1),
                    pipeline_rx |-> Some(Len(tui.runs) + 1),
                    validating |-> TRUE,
                    runs |-> Append(tui.runs, NewRun)]
    /\ PipelineUnchanged
    /\ UNCHANGED <<twin, disk, edit, app, ask>>

\* start_pipeline ('r', startup, after a fix, after an editor session): the
\* held token is cancelled; with Docker, the working directory and the spec
\* found (ok) a new run is created and the app holds its token and receiver.
StartPipeline(ok) ==
    /\ Len(tui.runs) < MaxRuns
    /\ tui' = IF ~ok THEN CancelHeld(tui)
              ELSE [cancel_token |-> Some(Len(tui.runs) + 1),
                    pipeline_rx |-> Some(Len(tui.runs) + 1),
                    validating |-> TRUE,
                    runs |-> Append(CancelHeld(tui).runs, NewRun)]
    /\ PipelineUnchanged
    /\ UNCHANGED <<twin, disk, edit, app, ask>>

\* Esc while validating.
EscCancel ==
    /\ tui.validating
    /\ tui.cancel_token # None
    /\ ~tui.runs[tui.cancel_token[1]].cancelled
    /\ tui' = CancelHeld(tui)
    /\ PipelineUnchanged
    /\ UNCHANGED <<twin, disk, edit, app, ask>>

\* The thread of run i sends Completed or Aborted and ends.
RunEnds(i) ==
    /\ tui.runs[i].state = "running"
    /\ tui' = [tui EXCEPT !.runs[i].state = "ended"]
    /\ PipelineUnchanged
    /\ UNCHANGED <<twin, disk, edit, app, ask>>

\* drain_pipeline_events receives the terminal event of the run whose
\* receiver the app holds.
DrainPipelineEvents ==
    /\ tui.pipeline_rx # None
    /\ tui.runs[tui.pipeline_rx[1]].state = "ended"
    /\ tui' = [tui EXCEPT !.pipeline_rx = None, !.cancel_token = None, !.validating = FALSE]
    /\ PipelineUnchanged
    /\ UNCHANGED <<twin, disk, edit, app, ask>>

TuiInit == PipelineIdle /\ SpecIdle

TuiNext ==
    \/ \E ok \in BOOLEAN : StartPipeline(ok)
    \/ EscCancel
    \/ \E i \in DOMAIN tui.runs : RunEnds(i)
    \/ DrainPipelineEvents

TuiSpec == TuiInit /\ [][TuiNext]_vars

\* A run whose thread still runs or whose token the app still holds.
Alive(i) == tui.runs[i].state = "running" \/ tui.cancel_token = <<i>>

\* C33: every run that is still in progress, or whose token the app still
\* holds, has its cancel flag set unless it is the run started last, so at
\* most one pipeline has an unset cancel flag.
C33_OneUncancelledRun ==
    /\ \A i \in DOMAIN tui.runs :
           Alive(i) /\ ~tui.runs[i].cancelled => i = Len(tui.runs)
    /\ Cardinality({i \in DOMAIN tui.runs : Alive(i) /\ ~tui.runs[i].cancelled}) <= 1

\* Two runs were replaced while their threads still ran, and the third runs
\* uncancelled.
C33_Witness ==
    /\ Len(tui.runs) = 3
    /\ \A i \in 1..2 : tui.runs[i].state = "running" /\ tui.runs[i].cancelled
    /\ tui.runs[3].state = "running" /\ ~tui.runs[3].cancelled

\* ----------------------------------------------------- C34, C37, C39
StartedOf(k) == stream.started \cap StepsOf(k)

\* C34: phases are separated by barriers. Once a Compile step has started,
\* every Generate step that started has finished; once a Generate step has
\* started, the Lint step, if it started, has finished; and every container
\* that runs belongs to a step of the phase in progress that has started
\* and not finished, so no Compile container runs beside a Generate
\* container and no Generate container beside the Lint container.
C34_PhaseBarriers ==
    /\ StartedOf("Compile") # {} => StartedOf("Generate") \subseteq FinishedSteps
    /\ StartedOf("Generate") # {} => stream.started \cap {LintId} \subseteq FinishedSteps
    /\ \A i \in Running :
           /\ StepId(KindOf(i), i) \in stream.started \ FinishedSteps
           /\ KindOf(i) = "Lint" => stream.started = {LintId}
           /\ KindOf(i) = "Compile" => StartedOf("Generate") \subseteq FinishedSteps

\* A Compile container runs after two Generate steps.
C34_Witness ==
    /\ kind = "Compile"
    /\ Running # {}
    /\ Cardinality(StartedOf("Generate")) >= 2
    /\ LintId \in stream.started

\* C37: when Aborted has been sent, every step that sent PhaseStarted has
\* sent PhaseFinished, no container runs and no worker thread is left.
C37_AbortAfterJoin ==
    Terminal = "Aborted" =>
        /\ stream.started \subseteq FinishedSteps
        /\ Running = {}
        /\ \A i \in Slots : worker[i].pc = "idle" /\ child[i] # "running"

\* A run cancelled while it ran, aborted after two steps of it started.
C37_Witness ==
    /\ Terminal = "Aborted"
    /\ snap.at = "run"
    /\ Cardinality(StartedOf("Generate")) >= 2

\* C39: with generate disabled no Compile step is started and no compile
\* record is made, whatever compile and the generator list are; a Compile
\* step starts only in a run whose Generate phase ran and was recorded.
C39_NoCompileWithoutGenerate ==
    /\ ~cfg.generate =>
           /\ StartedOf("Compile") = {}
           /\ kind # "Compile"
           /\ phases.compile = <<>>
    /\ StartedOf("Compile") # {} =>
           /\ cfg.generate
           /\ StartedOf("Generate") # {}
           /\ phases.generate # <<>>

\* A run with compile enabled, generate disabled and generators, completed.
C39_Witness ==
    /\ Terminal = "Completed"
    /\ ~cfg.generate
    /\ cfg.compile
    /\ generators # <<>>

\* ------------------------------------------------ detect_child_indent (C36)
\* detect_child_indent on its own: a file of up to MaxIndentLines lines, each
\* a key, a comment or a blank line behind up to MaxIndent spaces, and a
\* parent line inside the file (0 stands for the first line, as
\* saturating_sub makes it).
MaxIndentLines == 3
MaxIndent == 3

Spaces(n) == [k \in 1..n |-> SP]
LineKinds == {"key", "comment", "blank"}
IndentLineForms == [indent : 0..MaxIndent, kind : LineKinds]
IndentFiles == UNION {[1..n -> IndentLineForms] : n \in 1..MaxIndentLines}

\* The text of a line of the file.
IndentLineText(l) ==
    Spaces(l.indent) \o (CASE l.kind = "key" -> <<"a", ":">>
                           [] l.kind = "comment" -> <<"#", "a">>
                           [] OTHER -> <<>>)

IndentInit == PipelineIdle /\ SpecIdle

\* A caller asks for the indent of the children of line parent_line.
DetectChildIndent(file, parent_line) ==
    /\ ask = NoAsk
    /\ LET ls == [k \in DOMAIN file |-> IndentLineText(file[k])] IN
        /\ ~parent_out_of_bounds(ls, parent_line)
        /\ ask' = [op |-> "indent", arg |-> <<file, parent_line>>,
                   answer |-> detect_child_indent(ls, parent_line)]
    /\ PipelineUnchanged
    /\ UNCHANGED <<twin, disk, edit, app, tui>>

IndentNext ==
    \E file \in IndentFiles : \E parent_line \in 0..MaxIndentLines :
        DetectChildIndent(file, parent_line)

IndentSpec == IndentInit /\ [][IndentNext]_vars

Detected == ask.op = "indent"
AskedFile == ask.arg[1]
\* The parent line asked about, 1-based.
AskedParent == IF ask.arg[2] = 0 THEN 1 ELSE ask.arg[2]
\* The lines below the parent that are neither blank nor a comment.
ContentBelow == {k \in DOMAIN AskedFile : k > AskedParent /\ AskedFile[k].kind = "key"}
\* Those of them that are indented more than the parent.
DeeperBelow == {k \in ContentBelow : AskedFile[k].indent > AskedFile[AskedParent].indent}
First(S) == CHOOSE k \in S : \A j \in S : k <= j
Fallback == Spaces(AskedFile[AskedParent].indent + 2)

\* C36 as stated: detect_child_indent returns the leading whitespace of the
\* first line below the parent that is neither blank nor a comment and is
\* indented more than the parent, wherever below the parent it stands, and
\* the parent's indent plus two spaces only when there is no such line.
C36_FirstDeeperLineBelow ==
    Detected =>
        ask.answer = IF DeeperBelow # {}
                     THEN Spaces(AskedFile[First(DeeperBelow)].indent)
                     ELSE Fallback

\* C36, amended: detect_child_indent looks at the first line below the parent
\* that is neither blank nor a comment; it returns that line's leading
\* whitespace if it is longer than the parent's, and the parent's indent
\* plus two spaces if it is not or if there is no such line.
C36_FirstContentLineIfDeeper ==
    Detected =>
        ask.answer = IF ContentBelow # {} /\ First(ContentBelow) \in DeeperBelow
                     THEN Spaces(AskedFile[First(ContentBelow)].indent)
                     ELSE Fallback

\* A comment and a blank line are passed over and the key behind them, three
\* spaces deep, gives the indent.
C36_Witness ==
    /\ Detected
    /\ Len(AskedFile) = 3
    /\ AskedParent = 1
    /\ AskedFile[1] = [indent |-> 1, kind |-> "key"]
    /\ AskedFile[2].kind = "comment"
    /\ AskedFile[3] = [indent |-> 3, kind |-> "key"]
    /\ ask.answer = <<SP, SP, SP>>

\* ------------------------------------------- parse_spec, line by line (C40)
\* The loop of parse_spec taken one line at a time over a source of up to
\* MaxScanLines lines. A line is a key ("k:"), an array item ("- k:"), a
\* comment, a blank line, a flow collection or plain text without a colon,
\* behind up to MaxScanIndent spaces; ask.answer holds the lines, the number
\* of lines gone through, the stack and the spans.
MaxScanLines == 3
MaxScanIndent == 2

ScanKeys == {<<"a">>, <<"/">>}
ScanLineForms ==
    [indent : 0..MaxScanIndent, kind : {"key"}, key : ScanKeys]
        \cup [indent : {0}, kind : {"item"}, key : {<<"a">>}]
        \cup [indent : {0}, kind : {"comment", "blank", "flow", "plain"}, key : {<<>>}]
ScanFiles == UNION {[1..n -> ScanLineForms] : n \in 1..MaxScanLines}

\* The text of a line, and of a source with every line ended by a newline.
ScanLineText(l) ==
    [k \in 1..l.indent |-> SP] \o
        (CASE l.kind = "key" -> l.key \o <<":">>
           [] l.kind = "item" -> <<"-", SP>> \o l.key \o <<":", SP, "b">>
           [] l.kind = "comment" -> <<"#", "a", ":">>
           [] l.kind = "flow" -> <<"[", "a", ":", "]">>
           [] l.kind = "plain" -> <<"a">>
           [] OTHER -> <<>>)
RECURSIVE ScanText(_)
ScanText(file) ==
    IF file = <<>> THEN <<>> ELSE ScanLineText(Head(file)) \o <<LF>> \o ScanText(Tail(file))

\* One iteration of the loop of parse_spec, on line idx (0-based).
scan_line(ls, idx, stack, spans) ==
    LET line == ls[idx + 1]
        trimmed == trim(line)
        indent == leading_spaces(line)
        found == extract_yaml_key(trimmed) IN
    IF \/ trimmed = <<>>
       \/ starts_with(trimmed, <<"#">>)
       \/ starts_with(trimmed, <<"{">>)
       \/ starts_with(trimmed, <<"[">>)
       \/ found = None
    THEN [stack |-> stack, spans |-> spans]
    ELSE LET pushed == Append(pop_deeper(stack, indent),
                              [lvl |-> indent, key |-> found[1].key]) IN
         [stack |-> pushed,
          spans |-> spans_insert(spans, build_json_pointer(pushed),
                                 [line |-> idx + 1, col |-> indent + found[1].offset])]

ScanInit == PipelineIdle /\ SpecIdle

\* parse_spec is called: the lines are split, the spans and the stack are empty.
ScanStart(file) ==
    /\ ask = NoAsk
    /\ ask' = [op |-> "scan", arg |-> file,
               answer |-> [lines |-> lines(ScanText(file)), idx |-> 0,
                           stack |-> <<>>, spans |-> NoSpans]]
    /\ PipelineUnchanged
    /\ UNCHANGED <<twin, disk, edit, app, tui>>

\* The loop goes through its next line.
ScanLine ==
    /\ ask.op = "scan"
    /\ ask.answer.idx < Len(ask.answer.lines)
    /\ LET after(r) == [ask EXCEPT !.answer.idx = @ + 1,
                                   !.answer.stack = r.stack,
                                   !.answer.spans = r.spans] IN
        ask' = after(scan_line(ask.answer.lines, ask.answer.idx,
                               ask.answer.stack, ask.answer.spans))
    /\ PipelineUnchanged
    /\ UNCHANGED <<twin, disk, edit, app, tui>>

ScanNext ==
    \/ \E file \in ScanFiles : ScanStart(file)
    \/ ScanLine

ScanSpec == ScanInit /\ [][ScanNext]_vars

Scanning == ask.op = "scan"
ScanFile == ask.arg
Scanned == ask.answer.idx
ScanStack == ask.answer.stack
ScanSpans == ask.answer.spans
KeyLine(j) == ScanFile[j].kind \in {"key", "item"}
\* The key lines gone through so far.
KeyLinesTo(n) == {j \in 1..n : KeyLine(j)}
\* Line j is an open ancestor of key line n (or n itself): no key line after
\* j up to n stands at j's indent or to the left of it.
OpenAt(j, n) ==
    /\ j \in KeyLinesTo(n)
    /\ \A k \in KeyLinesTo(n) : k > j => ScanFile[k].indent > ScanFile[j].indent
OpenAncestors(n) == {j \in 1..n : OpenAt(j, n)}
\* The m-th smallest element of a set of line numbers.
RECURSIVE Ordered(_)
Ordered(S) ==
    IF S = {} THEN <<>>
    ELSE LET lo == CHOOSE j \in S : \A k \in S : j <= k IN <<lo>> \o Ordered(S \ {lo})
RECURSIVE PointerOfLines(_)
PointerOfLines(js) ==
    IF js = <<>> THEN <<>>
    ELSE <<"/">> \o Escaped(ScanFile[Head(js)].key) \o PointerOfLines(Tail(js))
\* The pointer of key line n: one segment for each of its open ancestors.
PointerOfLine(n) == PointerOfLines(Ordered(OpenAncestors(n)))
\* The '/' of a pointer: one in front of each segment.
Segments(p) == Cardinality({k \in DOMAIN p : p[k] = "/"})
Latest(S) == CHOOSE j \in S : \A k \in S : k <= j

\* C40: while parse_spec scans a source, the stack of (indent, key) frames
\* has strictly increasing indents from bottom to top; after a key line has
\* been gone through, the top frame is that line's indent and key and the
\* frames are the line's open ancestors in order; the pointer recorded for
\* the line has one segment for each frame; and each pointer of the spans is
\* located at the latest line gone through that produced it. When the last
\* line has been gone through the spans are those of parse_spec.
C40_StackDiscipline ==
    Scanning =>
        /\ \A j \in 1..(Len(ScanStack) - 1) : ScanStack[j].lvl < ScanStack[j + 1].lvl
        /\ (Scanned > 0 /\ KeyLine(Scanned)) =>
            /\ ScanStack # <<>>
            /\ ScanStack[Len(ScanStack)] =
                    [lvl |-> ScanFile[Scanned].indent, key |-> ScanFile[Scanned].key]
            /\ Len(ScanStack) = Cardinality(OpenAncestors(Scanned))
            /\ \A m \in DOMAIN ScanStack :
                    LET j == Ordered(OpenAncestors(Scanned))[m] IN
                    ScanStack[m] = [lvl |-> ScanFile[j].indent, key |-> ScanFile[j].key]
            /\ PointerOfLine(Scanned) \in DOMAIN ScanSpans
            /\ ScanSpans[PointerOfLine(Scanned)].line = Scanned
            /\ Segments(PointerOfLine(Scanned)) = Len(ScanStack)
        /\ DOMAIN ScanSpans = {PointerOfLine(j) : j \in KeyLinesTo(Scanned)}
        /\ \A j \in KeyLinesTo(Scanned) :
                ScanSpans[PointerOfLine(j)].line =
                    Latest({k \in KeyLinesTo(Scanned) : PointerOfLine(k) = PointerOfLine(j)})
        /\ Scanned = Len(ask.answer.lines) =>
                ScanSpans = parse_spec(ScanText(ScanFile)).spans

\* "a:", " /:", "a:" gone through: the third line has popped two frames and
\* has taken the place of the first under the pointer /a.
C40_Witness ==
    /\ Scanning
    /\ Scanned = 3
    /\ ScanFile[1] = [indent |-> 0, kind |-> "key", key |-> <<"a">>]
    /\ ScanFile[2] = [indent |-> 1, kind |-> "key", key |-> <<"/">>]
    /\ ScanFile[3] = [indent |-> 0, kind |-> "key", key |-> <<"a">>]
    /\ ScanStack = <<[lvl |-> 0, key |-> <<"a">>]>>
    /\ ScanSpans[<<"/", "a">>].line = 3
    /\ ScanSpans[<<"/", "a", "/", "~", "1">>].line = 2

====
